---- MODULE Spec2Model ----
(***************************************************************************)
(* The LeetCode-75 template scaffolder of Dev-Garden                       *)
(* (src/unnamed/part_004, lines 73-292): a table of problem descriptors,   *)
(* slugify, generateProblemTemplate and the forEach loop that writes one   *)
(* .mdx file per descriptor unless something already exists at its path.   *)
(*                                                                         *)
(* Text is modelled as a sequence of tokens.  A title and its slug are      *)
(* sequences of one-character strings; a tag, a difficulty and each piece  *)
(* of fixed text of a template literal is one token.  The emoji that open  *)
(* the log lines are left out of the tokens.                               *)
(***************************************************************************)
EXTENDS Integers, Sequences, FiniteSets, TLC

VARIABLES
    \* ---- the scaffolder run (part_004:274-292) ----
    problems,   \* the descriptor list the forEach walks
    idx,        \* 1-based index of the descriptor the forEach is at
    pc,         \* "run" | "done" | "aborted" (uncaught exception)
    fs,         \* the entries at the paths below docs/leetcode-75/*/
    dirs,       \* the category directories that exist
    readonly,   \* TRUE when the docs tree refuses writes (EACCES)
    free,       \* free disk space, in tokens; Unlimited when ample
    stdout,     \* the lines printed by console.log, in order
    ops,        \* the fs calls made in this run and their results, in order
    run,        \* number of the current invocation
    start,      \* fs, dirs, readonly, free at the start of this invocation
    prev,       \* what the previous invocation ended with
    \* ---- one call of slugify (part_004:197-202) ----
    title,      \* the argument
    str,        \* the string flowing through the method chain
    spc         \* "call" | "lowered" | "replaced" | "returned" | "idle"

vars == <<problems, idx, pc, fs, dirs, readonly, free, stdout, ops, run,
          start, prev, title, str, spc>>
runVars == <<problems, idx, pc, fs, dirs, readonly, free, stdout, ops, run,
             start, prev>>
slugVars == <<title, str, spc>>

(***************************************************************************)
(* Bounds                                                                  *)
(***************************************************************************)
MaxLen == 3         \* longest enumerated title of the slugify run
MaxProblems == 2    \* longest descriptor list
MaxRuns == 2        \* invocations in a row

(***************************************************************************)
(* Characters                                                              *)
(***************************************************************************)
UpperSeq == <<"A","B","C","D","E","F","G","H","I","J","K","L","M",
              "N","O","P","Q","R","S","T","U","V","W","X","Y","Z">>
LowerSeq == <<"a","b","c","d","e","f","g","h","i","j","k","l","m",
              "n","o","p","q","r","s","t","u","v","w","x","y","z">>
Digits == {"0","1","2","3","4","5","6","7","8","9"}
Range(s) == {s[i] : i \in DOMAIN s}
Last(s) == s[Len(s)]
Front(s) == SubSeq(s, 1, Len(s) - 1)

\* The Kelvin sign (U+212A), a letter outside ASCII whose lower case is
\* the ASCII letter k.
KelvinSign == "<U+212A>"

\* The bounded alphabet titles are enumerated over: upper and lower case
\* letters, a digit, space, hyphen, apostrophe, the parentheses and the
\* Kelvin sign.
Alphabet == {"A", "a", "b", "1", " ", "-", "'", "(", ")", KelvinSign}

(***************************************************************************)
(* slugify (part_004:197-202)                                              *)
(***************************************************************************)
\* The lower-case letter of each upper-case letter.
UpperSet == Range(UpperSeq)
LowerOf ==
    [c \in UpperSet |-> LowerSeq[CHOOSE i \in DOMAIN UpperSeq : UpperSeq[i] = c]]

\* String.prototype.toLowerCase, one character: the Unicode lower-case
\* mapping, of A-Z and of the Kelvin sign among the characters here.
toLowerChar(c) ==
    IF c \in UpperSet THEN LowerOf[c]
    ELSE IF c = KelvinSign THEN "k"
    ELSE c

\* A bug: the case of the title kept.
KeepCase(s) == s

\* .toLowerCase()
toLowerCase(s) == [i \in DOMAIN s |-> toLowerChar(s[i])]

\* The character class [a-z0-9]; [^a-z0-9] is its complement.
ClassChars == Range(LowerSeq) \cup Digits

\* A bug: the digits left out of the class (/[^a-z]+/g).
InClassLettersOnly(c) == c \in Range(LowerSeq)

InClass(c) == c \in ClassChars

\* The rest of s after the longest prefix matching [^a-z0-9]+ (greedy).
RECURSIVE SkipRun(_)
SkipRun(s) ==
    IF s = <<>> \/ InClass(Head(s)) THEN s ELSE SkipRun(Tail(s))

\* A bug: the g flag left out, only the first run replaced.
RECURSIVE ReplaceFirstRun(_)
ReplaceFirstRun(s) ==
    IF s = <<>> THEN <<>>
    ELSE IF InClass(Head(s)) THEN <<Head(s)>> \o ReplaceFirstRun(Tail(s))
    ELSE <<"-">> \o SkipRun(s)

\* A bug the + quantifier prevents: every character replaced on its own.
RECURSIVE ReplaceEach(_)
ReplaceEach(s) ==
    IF s = <<>> THEN <<>>
    ELSE IF InClass(Head(s)) THEN <<Head(s)>> \o ReplaceEach(Tail(s))
    ELSE <<"-">> \o ReplaceEach(Tail(s))

\* .replace(/[^a-z0-9]+/g, '-'): scanning left to right, each match (a
\* maximal run, the quantifier being greedy) is replaced by one hyphen.
RECURSIVE replaceRuns(_)
replaceRuns(s) ==
    IF s = <<>> THEN <<>>
    ELSE IF InClass(Head(s)) THEN <<Head(s)>> \o replaceRuns(Tail(s))
    ELSE <<"-">> \o replaceRuns(SkipRun(s))

\* A bug of the alternation: only the leading hyphen is removed.
StripLeadingOnly(s) ==
    IF s # <<>> /\ Head(s) = "-" THEN Tail(s) ELSE s

\* .replace(/(^-|-$)/g, ''): a hyphen at index 0 is a match, and so is a
\* hyphen at the last index unless the first match already consumed it.
stripEnds(s) ==
    LET a == IF s # <<>> /\ Head(s) = "-" THEN Tail(s) ELSE s
    IN  IF a # <<>> /\ Last(a) = "-" THEN Front(a) ELSE a

slugify(t) == stripEnds(replaceRuns(toLowerCase(t)))

(***************************************************************************)
(* Titles                                                                  *)
(***************************************************************************)
RECURSIVE SeqsUpTo(_, _)
SeqsUpTo(S, n) ==
    IF n = 0 THEN {<<>>}
    ELSE LET shorter == SeqsUpTo(S, n - 1)
         IN  shorter \cup {Append(s, c) : s \in shorter, c \in S}

\* 'N-th Tribonacci Number' (part_004:166)
NthTribonacci ==
    <<"N","-","t","h"," ","T","r","i","b","o","n","a","c","c","i"," ",
      "N","u","m","b","e","r">>
\* 'Implement Trie (Prefix Tree)' (part_004:185)
ImplementTrie ==
    <<"I","m","p","l","e","m","e","n","t"," ","T","r","i","e"," ","(",
      "P","r","e","f","i","x"," ","T","r","e","e",")">>

SlugTitles == SeqsUpTo(Alphabet, MaxLen) \cup {NthTribonacci, ImplementTrie}

(***************************************************************************)
(* Paths (part_004:275-278)                                                *)
(*                                                                         *)
(* A path is a sequence of components, a component a sequence of tokens.   *)
(***************************************************************************)
\* path.join: empty segments are ignored and the result is normalised, a
\* '..' segment removing the component before it.
RECURSIVE Normalize(_, _)
Normalize(parts, acc) ==
    IF parts = <<>> THEN acc
    ELSE IF Head(parts) = <<>> THEN Normalize(Tail(parts), acc)
    ELSE IF Head(parts) = <<"..">> /\ acc # <<>> /\ Last(acc) # <<"..">>
         THEN Normalize(Tail(parts), Front(acc))
    ELSE Normalize(Tail(parts), Append(acc, Head(parts)))

pathJoin(parts) == Normalize(parts, <<>>)

\* __dirname: the directory holding the script, one level below the
\* repository root (docs is reached from it through '..').
dirname == << <<"repo">>, <<"scripts">> >>

\* const docsPath = path.join(__dirname, '..', 'docs', 'leetcode-75', problem.folder)
docsPath(problem) ==
    pathJoin(dirname \o
             << <<"..">>, <<"docs">>, <<"leetcode-75">>, <<problem.folder>> >>)

\* A bug: the file named after the title as it stands.
FilenameFromTitle(problem) == problem.title \o <<".mdx">>

\* A bug: the file named after the folder of its descriptor.
FilenameFromFolder(problem) == <<problem.folder, ".mdx">>

\* const filename = `${slug}.mdx`
filename(problem) == slugify(problem.title) \o <<".mdx">>

\* A bug: the position made part of the file name.
FilepathWithPosition(problem) ==
    pathJoin(docsPath(problem)
             \o << <<ToString(problem.position), "-">> \o filename(problem) >>)

\* const filepath = path.join(docsPath, filename)
filepath(problem) == pathJoin(docsPath(problem) \o <<filename(problem)>>)

\* A path as the string the template literals of the log lines print.
RECURSIVE PathStr(_)
PathStr(p) ==
    IF p = <<>> THEN <<>> ELSE <<"/">> \o Head(p) \o PathStr(Tail(p))

(***************************************************************************)
(* generateProblemTemplate (part_004:204-271)                              *)
(***************************************************************************)
\* `"${tag}"`
quoteTag(tag) == <<"\"", tag, "\"">>

\* A bug: the tags made unique before they are joined.
RECURSIVE TagsDeduplicated(_)
TagsDeduplicated(tags) ==
    IF tags = <<>> THEN <<>>
    ELSE LET front == SubSeq(tags, 1, Len(tags) - 1)
             last == tags[Len(tags)]
             seen == \E k \in DOMAIN front : front[k] = last
             rest == TagsDeduplicated(front)
         IN  IF seen THEN rest
             ELSE IF rest = <<>> THEN <<"\"", last, "\"">>
             ELSE rest \o <<", ", "\"", last, "\"">>

\* problem.tags.map(tag => `"${tag}"`).join(', ')
RECURSIVE tagsString(_)
tagsString(tags) ==
    IF tags = <<>> THEN <<>>
    ELSE IF Len(tags) = 1 THEN quoteTag(tags[1])
    ELSE quoteTag(tags[1]) \o <<", ">> \o tagsString(Tail(tags))

\* ${problem.position}: the decimal digits of the number.
RECURSIVE NumStr(_)
NumStr(n) ==
    IF n < 10 THEN <<ToString(n)>>
    ELSE NumStr(n \div 10) \o <<ToString(n % 10)>>

\* The escaped code fence of the template literal (three backquotes, a
\* character a TLA+ string cannot hold).
CodeFence == "<fence>"

\* The mark of a section heading in the template literal; the name of the
\* section is the token after it.
SectionMark == "### "

\* The fixed text from the LeetCode link to the heading of the code block.
SkeletonHead ==
    <<"/)\n\n***\n\n",
      SectionMark, "Problem Statement",
      "\n\n_Add problem description here._\n\n***\n\n",
      SectionMark, "Intuition",
      "\n\n_Explain the core idea behind your solution._\n\n***\n\n",
      SectionMark, "Approach",
      "\n\n1. _Step 1 description_\n2. _Step 2 description_\n3. _Step 3 description_\n\n***\n\n",
      SectionMark, "Complexity",
      "\n\n#### Time complexity: $O(N)$\n\n_Explain time complexity._\n\n",
      "#### Space complexity: $O(1)$\n\n_Explain space complexity._\n\n***\n\n",
      SectionMark, "Code",
      "\n\n", CodeFence, "javascript\n/**\n * Solution for ">>

\* The fixed text after the title in the code block.
SkeletonTail ==
    <<"\n */\nfunction solution() {\n    // Your code here\n}\n", CodeFence,
      "\n\n***\n\n",
      SectionMark, "Notes",
      "\n\n_Add any additional notes, edge cases, or alternative approaches here._\n">>

\* A bug: the difficulty line left out of the template.
TemplateWithoutDifficulty(problem) ==
    <<"---\nsidebar_position: ">> \o NumStr(problem.position)
    \o <<"\ntitle: \"">> \o problem.title
    \o <<"\"\ntags: [">> \o tagsString(problem.tags)
    \o <<"]\n---\n\n# ">> \o problem.title
    \o <<"\n\n[View on LeetCode](https://leetcode.com/problems/">>
    \o slugify(problem.title)
    \o SkeletonHead \o problem.title \o SkeletonTail

\* The template literal (part_004:208-270) around the texts of its
\* interpolations.
templateOf(position, name, tags, difficulty, slug) ==
    <<"---\nsidebar_position: ">> \o position
    \o <<"\ntitle: \"">> \o name
    \o <<"\"\ntags: [">> \o tags
    \o <<"]\n---\n\n# ">> \o name
    \o <<"\n\n> **Difficulty:** ">> \o difficulty
    \o <<"\n\n[View on LeetCode](https://leetcode.com/problems/">> \o slug
    \o SkeletonHead \o name \o SkeletonTail

generateProblemTemplate(problem) ==
    LET slug == slugify(problem.title)
    IN  templateOf(NumStr(problem.position), problem.title,
                   tagsString(problem.tags), <<problem.difficulty>>, slug)

(***************************************************************************)
(* The filesystem calls (part_004:281, 288)                                *)
(***************************************************************************)
Unlimited == 0 - 1

File(data) == [kind |-> "file", data |-> data]
Dir == [kind |-> "dir", data |-> <<>>]

\* A bug: only a regular file counted as existing (statSync().isFile()).
ExistsAsFile(f, p) == p \in DOMAIN f /\ f[p].kind = "file"

\* A bug: the bare file name checked, which resolves against the working
\* directory, where none of the files are.
ExistsBareName(f, p) == <<Last(p)>> \in DOMAIN f

\* fs.existsSync(filepath): TRUE for any entry at the path, file or directory.
existsSync(f, p) == p \in DOMAIN f

\* A bug: the file opened for appending (flag 'a') instead of truncated.
WriteFileAppending(f, fr, d, ro, p, content) ==
    IF Front(p) \notin d
    THEN [fs |-> f, free |-> fr, err |-> "ENOENT"]
    ELSE IF p \in DOMAIN f /\ f[p].kind = "dir"
    THEN [fs |-> f, free |-> fr, err |-> "EISDIR"]
    ELSE IF ro THEN [fs |-> f, free |-> fr, err |-> "EACCES"]
    ELSE LET old == IF p \in DOMAIN f THEN f[p].data ELSE <<>>
         IN  IF fr = Unlimited
             THEN [fs |-> (p :> File(old \o content)) @@ f, free |-> fr,
                   err |-> "none"]
             ELSE IF Len(content) <= fr
             THEN [fs |-> (p :> File(old \o content)) @@ f,
                   free |-> fr - Len(content), err |-> "none"]
             ELSE [fs |-> (p :> File(old \o SubSeq(content, 1, fr))) @@ f,
                   free |-> 0, err |-> "ENOSPC"]

\* A bug: the missing parent directories made on the way (mkdir -p).
WriteFileMakingDirs(f, fr, d, ro, p, content) ==
    IF p \in DOMAIN f /\ f[p].kind = "dir"
    THEN [fs |-> f, free |-> fr, err |-> "EISDIR"]
    ELSE IF ro THEN [fs |-> f, free |-> fr, err |-> "EACCES"]
    ELSE [fs |-> (p :> File(content)) @@ f, free |-> fr, err |-> "none"]

\* fs.writeFileSync(filepath, content, 'utf8'): open(path, 'w') creates or
\* truncates the file, then the data is written; an error is thrown when
\* the parent directory is missing (ENOENT), the path is a directory
\* (EISDIR), the tree refuses writes (EACCES) or the disk fills up (ENOSPC,
\* the file staying behind with the part that fitted).  Truncating a file
\* that is there gives the room of its old content back.
writeFileSync(f, fr, d, ro, p, content) ==
    IF Front(p) \notin d THEN [fs |-> f, free |-> fr, err |-> "ENOENT"]
    ELSE IF p \in DOMAIN f /\ f[p].kind = "dir"
         THEN [fs |-> f, free |-> fr, err |-> "EISDIR"]
    ELSE IF ro THEN [fs |-> f, free |-> fr, err |-> "EACCES"]
    ELSE IF fr = Unlimited
         THEN [fs |-> (p :> File(content)) @@ f, free |-> fr, err |-> "none"]
    ELSE LET room == IF p \in DOMAIN f THEN fr + Len(f[p].data) ELSE fr
         IN  IF Len(content) <= room
             THEN [fs |-> (p :> File(content)) @@ f,
                   free |-> room - Len(content), err |-> "none"]
             ELSE [fs |-> (p :> File(SubSeq(content, 1, room))) @@ f,
                   free |-> 0, err |-> "ENOSPC"]

(***************************************************************************)
(* The forEach callback (part_004:274-290) as a transformer of             *)
(* st = [fs, free, stdout, ops, pc]; d and ro are the directories that     *)
(* exist and the write protection, which a run does not change.            *)
(***************************************************************************)
SkipPrefix == "Skipping (already exists): "
CreatedPrefix == "Created: "

\* console.log(`... Skipping (already exists): ${filepath}`)
skipLine(fp) == <<SkipPrefix>> \o PathStr(fp)

\* console.log(`... Created: ${filepath}`)
createdLine(fp) == <<CreatedPrefix>> \o PathStr(fp)

\* A bug: the counts of the run appended to the closing line.
SummaryWithCounts(out) ==
    <<"\nAll LeetCode ", "75", " problem files generated!", " created: ",
      ToString(Cardinality({i \in DOMAIN out : Head(out[i]) = CreatedPrefix})),
      " skipped: ",
      ToString(Cardinality({i \in DOMAIN out : Head(out[i]) = SkipPrefix}))>>

\* console.log('\n... All LeetCode 75 problem files generated!'); out is
\* what was printed before it.
summaryLine(out) == <<"\nAll LeetCode ", "75", " problem files generated!">>

\* A bug: a file that exists passed over without a word.
SkipSilent(fp, st) == st

\* A bug: the early return ending the whole run instead of the callback.
SkipStopsRun(fp, st) ==
    [st EXCEPT !.stdout = Append(@, skipLine(fp)), !.pc = "aborted"]

\* if (fs.existsSync(filepath)) { console.log(...); return; }
skipBranch(fp, st) == [st EXCEPT !.stdout = Append(@, skipLine(fp))]

\* A bug: the file reported created and never written (a dry run).
WriteBranchDryRun(problem, i, fp, st, d, ro) ==
    [st EXCEPT !.stdout = Append(@, createdLine(fp))]

\* A bug: a failed write undone together with the files of this run.
WriteBranchRollingBack(problem, i, fp, st, d, ro) ==
    LET w == writeFileSync(st.fs, st.free, d, ro, fp,
                           generateProblemTemplate(problem))
        written == {st.ops[k].path : k \in {j \in DOMAIN st.ops :
                                               st.ops[j].op = "writeFileSync"}}
        wrote == [st EXCEPT !.fs = w.fs, !.free = w.free,
                            !.ops = Append(@, [op |-> "writeFileSync",
                                               at |-> i, path |-> fp,
                                               res |-> w.err])]
    IN  IF w.err = "none"
        THEN [wrote EXCEPT !.stdout = Append(@, createdLine(fp))]
        ELSE [wrote EXCEPT !.pc = "aborted",
                           !.fs = [q \in DOMAIN w.fs \ (written \cup {fp})
                                     |-> w.fs[q]]]

\* A bug: a failed write tried a second time.
WriteBranchRetrying(problem, i, fp, st, d, ro) ==
    LET content == generateProblemTemplate(problem)
        w1 == writeFileSync(st.fs, st.free, d, ro, fp, content)
        w2 == writeFileSync(w1.fs, w1.free, d, ro, fp, content)
        entry(w) == [op |-> "writeFileSync", at |-> i, path |-> fp,
                     res |-> w.err]
    IN  IF w1.err = "none"
        THEN [st EXCEPT !.fs = w1.fs, !.free = w1.free,
                        !.ops = Append(@, entry(w1)),
                        !.stdout = Append(@, createdLine(fp))]
        ELSE [st EXCEPT !.fs = w2.fs, !.free = w2.free,
                        !.ops = @ \o <<entry(w1), entry(w2)>>,
                        !.stdout = IF w2.err = "none"
                                   THEN Append(@, createdLine(fp)) ELSE @,
                        !.pc = IF w2.err = "none" THEN "run" ELSE "aborted"]

\* A bug: a try/catch around the write that logs and goes on.
WriteBranchCatching(problem, i, fp, st, d, ro) ==
    LET w == writeFileSync(st.fs, st.free, d, ro, fp,
                           generateProblemTemplate(problem))
    IN  [st EXCEPT !.fs = w.fs, !.free = w.free,
                   !.ops = Append(@, [op |-> "writeFileSync", at |-> i,
                                      path |-> fp, res |-> w.err]),
                   !.stdout = IF w.err = "none"
                              THEN Append(@, createdLine(fp)) ELSE @]

\* fs.writeFileSync(filepath, content, 'utf8'); console.log(...): the
\* exception of a failed write leaves the callback uncaught.
writeContent(content, i, fp, st, d, ro) ==
    LET w == writeFileSync(st.fs, st.free, d, ro, fp, content)
        wrote == [st EXCEPT !.fs = w.fs, !.free = w.free,
                            !.ops = Append(@, [op |-> "writeFileSync",
                                               at |-> i, path |-> fp,
                                               res |-> w.err])]
    IN  IF w.err = "none"
        THEN [wrote EXCEPT !.stdout = Append(@, createdLine(fp))]
        ELSE [wrote EXCEPT !.pc = "aborted"]

\* A bug: the position written from the index of the loop, not from the
\* descriptor.
WriteBranchIndexed(problem, i, fp, st, d, ro) ==
    writeContent(generateProblemTemplate([problem EXCEPT !.position = i]),
                 i, fp, st, d, ro)

\* const content = generateProblemTemplate(problem);
\* fs.writeFileSync(filepath, content, 'utf8'); console.log(`... Created: ...`)
\* An exception of writeFileSync is not caught: the process ends.
writeBranch(problem, i, fp, st, d, ro) ==
    writeContent(generateProblemTemplate(problem), i, fp, st, d, ro)

\* A bug: the existence check dropped, every descriptor written.
CallbackOverwriting(problem, i, st, d, ro) ==
    writeBranch(problem, i, filepath(problem), st, d, ro)

callback(problem, i, st, d, ro) ==
    LET fp == filepath(problem)
        checked == [st EXCEPT !.ops =
                       Append(@, [op |-> "existsSync", at |-> i, path |-> fp,
                                  res |-> IF existsSync(st.fs, fp)
                                          THEN "exists" ELSE "absent"])]
    IN  IF existsSync(st.fs, fp)
        THEN skipBranch(fp, checked)
        ELSE writeBranch(problem, i, fp, checked, d, ro)

\* A bug: every other element left out.
NextIndexSkipping(list, i) == i + 2

\* Array.prototype.forEach: the indices in increasing order, each once.
nextIndex(list, i) == i + 1

\* problems.forEach(callback) from index i on, until the list ends or an
\* exception leaves the loop.
RECURSIVE forEachFrom(_, _, _, _, _)
forEachFrom(list, i, st, d, ro) ==
    IF i \notin DOMAIN list \/ st.pc # "run" THEN st
    ELSE forEachFrom(list, nextIndex(list, i),
                     callback(list[i], i, st, d, ro), d, ro)

(***************************************************************************)
(* Inputs                                                                  *)
(***************************************************************************)
TwoSum == <<"T","w","o"," ","S","u","m">>
TwoSumNoisy == <<"(","t","w","o",")","'"," ","S","U","M","-">>

Folders == {"stack", "trie"}
Difficulties == {"Easy", "Medium", "Hard"}

\* Descriptors of the shape of the table's rows (part_004:76-195): two of
\* one folder whose titles have the same slug, and the same title in
\* another folder; a two-digit position, an empty and a repeating tag list.
Catalogue ==
    { [folder |-> "stack", position |-> 1, title |-> TwoSum,
       difficulty |-> "Easy", tags |-> <<"Array", "Hash Table">>],
      [folder |-> "stack", position |-> 2, title |-> TwoSumNoisy,
       difficulty |-> "Medium", tags |-> <<>>],
      [folder |-> "trie", position |-> 12, title |-> TwoSum,
       difficulty |-> "Hard", tags |-> <<"Trie", "Trie">>] }

Lists == SeqsUpTo(Catalogue, MaxProblems)

\* The category directories (README, Documentation Structure).
CategoryDirs == {docsPath([folder |-> f]) : f \in Folders}

\* What may lie at a target path before the first run: an empty file, a
\* file of unrelated text, a directory.
InitEntries == {File(<<>>), File(<<"my notes">>), Dir}
InitPaths == {filepath(d) : d \in Catalogue}

\* The environment at the start: a tree that refuses writes, a disk with
\* room for ShortRoom more tokens, or neither fault.
ShortRoom == 2
Environments ==
    { [readonly |-> TRUE, free |-> Unlimited],
      [readonly |-> FALSE, free |-> ShortRoom],
      [readonly |-> FALSE, free |-> Unlimited] }

(***************************************************************************)
(* The built-in table (part_004:76-195)                                    *)
(***************************************************************************)
\* A bug: the positions counted from zero.
RowZeroBased(folder, position, name, difficulty, tags) ==
    [folder |-> folder, position |-> position - 1, title |-> name,
     difficulty |-> difficulty, tags |-> tags]

\* One object literal of the table:
\* { folder: ..., position: ..., title: ..., difficulty: ..., tags: [...] }
row(folder, position, name, difficulty, tags) ==
    [folder |-> folder, position |-> position, title |-> name,
     difficulty |-> difficulty, tags |-> tags]

\* const problems = [ ... ], row by row in the order of the source.
ProblemTable ==
    <<
      \* part_004:78  Merge Strings Alternately
      row("array-string", 1,
          <<"M","e","r","g","e"," ","S","t","r","i","n","g","s"," ","A","l",
            "t","e","r","n","a","t","e","l","y">>,
          "Easy", <<"Array", "Two Pointers", "String">>),
      \* part_004:79  Greatest Common Divisor of Strings
      row("array-string", 2,
          <<"G","r","e","a","t","e","s","t"," ","C","o","m","m","o","n"," ",
            "D","i","v","i","s","o","r"," ","o","f"," ","S","t","r","i","n",
            "g","s">>,
          "Easy", <<"Math", "String">>),
      \* part_004:80  Kids With the Greatest Number of Candies
      row("array-string", 3,
          <<"K","i","d","s"," ","W","i","t","h"," ","t","h","e"," ","G","r",
            "e","a","t","e","s","t"," ","N","u","m","b","e","r"," ","o","f",
            " ","C","a","n","d","i","e","s">>,
          "Easy", <<"Array">>),
      \* part_004:81  Can Place Flowers
      row("array-string", 4,
          <<"C","a","n"," ","P","l","a","c","e"," ","F","l","o","w","e","r",
            "s">>,
          "Easy", <<"Array", "Greedy">>),
      \* part_004:82  Reverse Vowels of a String
      row("array-string", 5,
          <<"R","e","v","e","r","s","e"," ","V","o","w","e","l","s"," ","o",
            "f"," ","a"," ","S","t","r","i","n","g">>,
          "Easy", <<"Two Pointers", "String">>),
      \* part_004:83  Reverse Words in a String
      row("array-string", 6,
          <<"R","e","v","e","r","s","e"," ","W","o","r","d","s"," ","i","n",
            " ","a"," ","S","t","r","i","n","g">>,
          "Medium", <<"Two Pointers", "String">>),
      \* part_004:84  Product of Array Except Self
      row("array-string", 7,
          <<"P","r","o","d","u","c","t"," ","o","f"," ","A","r","r","a","y",
            " ","E","x","c","e","p","t"," ","S","e","l","f">>,
          "Medium", <<"Array", "Prefix Sum">>),
      \* part_004:85  Increasing Triplet Subsequence
      row("array-string", 8,
          <<"I","n","c","r","e","a","s","i","n","g"," ","T","r","i","p","l",
            "e","t"," ","S","u","b","s","e","q","u","e","n","c","e">>,
          "Medium", <<"Array", "Greedy">>),
      \* part_004:86  String Compression
      row("array-string", 9,
          <<"S","t","r","i","n","g"," ","C","o","m","p","r","e","s","s","i",
            "o","n">>,
          "Medium", <<"Two Pointers", "String">>),
      \* part_004:89  Move Zeroes
      row("two-pointers", 1,
          <<"M","o","v","e"," ","Z","e","r","o","e","s">>,
          "Easy", <<"Array", "Two Pointers">>),
      \* part_004:90  Is Subsequence
      row("two-pointers", 2,
          <<"I","s"," ","S","u","b","s","e","q","u","e","n","c","e">>,
          "Easy", <<"Two Pointers", "String", "Dynamic Programming">>),
      \* part_004:91  Container With Most Water
      row("two-pointers", 3,
          <<"C","o","n","t","a","i","n","e","r"," ","W","i","t","h"," ","M",
            "o","s","t"," ","W","a","t","e","r">>,
          "Medium", <<"Array", "Two Pointers", "Greedy">>),
      \* part_004:92  Max Number of K-Sum Pairs
      row("two-pointers", 4,
          <<"M","a","x"," ","N","u","m","b","e","r"," ","o","f"," ","K","-",
            "S","u","m"," ","P","a","i","r","s">>,
          "Medium", <<"Array", "Hash Table", "Two Pointers", "Sorting">>),
      \* part_004:95  Maximum Average Subarray I
      row("sliding-window", 1,
          <<"M","a","x","i","m","u","m"," ","A","v","e","r","a","g","e"," ",
            "S","u","b","a","r","r","a","y"," ","I">>,
          "Easy", <<"Array", "Sliding Window">>),
      \* part_004:96  Maximum Number of Vowels in a Substring of Given Length
      row("sliding-window", 2,
          <<"M","a","x","i","m","u","m"," ","N","u","m","b","e","r"," ","o",
            "f"," ","V","o","w","e","l","s"," ","i","n"," ","a"," ","S","u",
            "b","s","t","r","i","n","g"," ","o","f"," ","G","i","v","e","n",
            " ","L","e","n","g","t","h">>,
          "Medium", <<"String", "Sliding Window">>),
      \* part_004:97  Max Consecutive Ones III
      row("sliding-window", 3,
          <<"M","a","x"," ","C","o","n","s","e","c","u","t","i","v","e"," ",
            "O","n","e","s"," ","I","I","I">>,
          "Medium", <<"Array", "Binary Search", "Sliding Window", "Prefix Sum">>),
      \* part_004:98  Longest Subarray of 1's After Deleting One Element
      row("sliding-window", 4,
          <<"L","o","n","g","e","s","t"," ","S","u","b","a","r","r","a","y",
            " ","o","f"," ","1","'","s"," ","A","f","t","e","r"," ","D","e",
            "l","e","t","i","n","g"," ","O","n","e"," ","E","l","e","m","e",
            "n","t">>,
          "Medium", <<"Array", "Dynamic Programming", "Sliding Window">>),
      \* part_004:101  Find the Highest Altitude
      row("prefix-sum", 1,
          <<"F","i","n","d"," ","t","h","e"," ","H","i","g","h","e","s","t",
            " ","A","l","t","i","t","u","d","e">>,
          "Easy", <<"Array", "Prefix Sum">>),
      \* part_004:102  Find Pivot Index
      row("prefix-sum", 2,
          <<"F","i","n","d"," ","P","i","v","o","t"," ","I","n","d","e","x">>,
          "Easy", <<"Array", "Prefix Sum">>),
      \* part_004:105  Find the Difference of Two Arrays
      row("hash-map-set", 1,
          <<"F","i","n","d"," ","t","h","e"," ","D","i","f","f","e","r","e",
            "n","c","e"," ","o","f"," ","T","w","o"," ","A","r","r","a","y",
            "s">>,
          "Easy", <<"Array", "Hash Table">>),
      \* part_004:106  Unique Number of Occurrences
      row("hash-map-set", 2,
          <<"U","n","i","q","u","e"," ","N","u","m","b","e","r"," ","o","f",
            " ","O","c","c","u","r","r","e","n","c","e","s">>,
          "Easy", <<"Array", "Hash Table">>),
      \* part_004:107  Determine if Two Strings Are Close
      row("hash-map-set", 3,
          <<"D","e","t","e","r","m","i","n","e"," ","i","f"," ","T","w","o",
            " ","S","t","r","i","n","g","s"," ","A","r","e"," ","C","l","o",
            "s","e">>,
          "Medium", <<"Hash Table", "String", "Sorting">>),
      \* part_004:108  Equal Row and Column Pairs
      row("hash-map-set", 4,
          <<"E","q","u","a","l"," ","R","o","w"," ","a","n","d"," ","C","o",
            "l","u","m","n"," ","P","a","i","r","s">>,
          "Medium", <<"Array", "Hash Table", "Matrix", "Simulation">>),
      \* part_004:111  Removing Stars From a String
      row("stack", 1,
          <<"R","e","m","o","v","i","n","g"," ","S","t","a","r","s"," ","F",
            "r","o","m"," ","a"," ","S","t","r","i","n","g">>,
          "Medium", <<"String", "Stack", "Simulation">>),
      \* part_004:112  Asteroid Collision
      row("stack", 2,
          <<"A","s","t","e","r","o","i","d"," ","C","o","l","l","i","s","i",
            "o","n">>,
          "Medium", <<"Array", "Stack", "Simulation">>),
      \* part_004:113  Decode String
      row("stack", 3,
          <<"D","e","c","o","d","e"," ","S","t","r","i","n","g">>,
          "Medium", <<"String", "Stack", "Recursion">>),
      \* part_004:116  Number of Recent Calls
      row("queue", 1,
          <<"N","u","m","b","e","r"," ","o","f"," ","R","e","c","e","n","t",
            " ","C","a","l","l","s">>,
          "Easy", <<"Design", "Queue", "Data Stream">>),
      \* part_004:117  Dota2 Senate
      row("queue", 2,
          <<"D","o","t","a","2"," ","S","e","n","a","t","e">>,
          "Medium", <<"String", "Greedy", "Queue">>),
      \* part_004:120  Delete the Middle Node of a Linked List
      row("linked-list", 1,
          <<"D","e","l","e","t","e"," ","t","h","e"," ","M","i","d","d","l",
            "e"," ","N","o","d","e"," ","o","f"," ","a"," ","L","i","n","k",
            "e","d"," ","L","i","s","t">>,
          "Medium", <<"Linked List", "Two Pointers">>),
      \* part_004:121  Odd Even Linked List
      row("linked-list", 2,
          <<"O","d","d"," ","E","v","e","n"," ","L","i","n","k","e","d"," ",
            "L","i","s","t">>,
          "Medium", <<"Linked List">>),
      \* part_004:122  Reverse Linked List
      row("linked-list", 3,
          <<"R","e","v","e","r","s","e"," ","L","i","n","k","e","d"," ","L",
            "i","s","t">>,
          "Easy", <<"Linked List", "Recursion">>),
      \* part_004:123  Maximum Twin Sum of a Linked List
      row("linked-list", 4,
          <<"M","a","x","i","m","u","m"," ","T","w","i","n"," ","S","u","m",
            " ","o","f"," ","a"," ","L","i","n","k","e","d"," ","L","i","s",
            "t">>,
          "Medium", <<"Linked List", "Two Pointers", "Stack">>),
      \* part_004:126  Maximum Depth of Binary Tree
      row("binary-tree-dfs", 1,
          <<"M","a","x","i","m","u","m"," ","D","e","p","t","h"," ","o","f",
            " ","B","i","n","a","r","y"," ","T","r","e","e">>,
          "Easy", <<"Tree", "Depth-First Search", "Breadth-First Search", "Binary Tree">>),
      \* part_004:127  Leaf-Similar Trees
      row("binary-tree-dfs", 2,
          <<"L","e","a","f","-","S","i","m","i","l","a","r"," ","T","r","e",
            "e","s">>,
          "Easy", <<"Tree", "Depth-First Search", "Binary Tree">>),
      \* part_004:128  Count Good Nodes in Binary Tree
      row("binary-tree-dfs", 3,
          <<"C","o","u","n","t"," ","G","o","o","d"," ","N","o","d","e","s",
            " ","i","n"," ","B","i","n","a","r","y"," ","T","r","e","e">>,
          "Medium", <<"Tree", "Depth-First Search", "Breadth-First Search", "Binary Tree">>),
      \* part_004:129  Path Sum III
      row("binary-tree-dfs", 4,
          <<"P","a","t","h"," ","S","u","m"," ","I","I","I">>,
          "Medium", <<"Tree", "Depth-First Search", "Binary Tree">>),
      \* part_004:130  Longest ZigZag Path in a Binary Tree
      row("binary-tree-dfs", 5,
          <<"L","o","n","g","e","s","t"," ","Z","i","g","Z","a","g"," ","P",
            "a","t","h"," ","i","n"," ","a"," ","B","i","n","a","r","y"," ",
            "T","r","e","e">>,
          "Medium", <<"Dynamic Programming", "Tree", "Depth-First Search", "Binary Tree">>),
      \* part_004:131  Lowest Common Ancestor of a Binary Tree
      row("binary-tree-dfs", 6,
          <<"L","o","w","e","s","t"," ","C","o","m","m","o","n"," ","A","n",
            "c","e","s","t","o","r"," ","o","f"," ","a"," ","B","i","n","a",
            "r","y"," ","T","r","e","e">>,
          "Medium", <<"Tree", "Depth-First Search", "Binary Tree">>),
      \* part_004:134  Binary Tree Right Side View
      row("binary-tree-bfs", 1,
          <<"B","i","n","a","r","y"," ","T","r","e","e"," ","R","i","g","h",
            "t"," ","S","i","d","e"," ","V","i","e","w">>,
          "Medium", <<"Tree", "Depth-First Search", "Breadth-First Search", "Binary Tree">>),
      \* part_004:135  Maximum Level Sum of a Binary Tree
      row("binary-tree-bfs", 2,
          <<"M","a","x","i","m","u","m"," ","L","e","v","e","l"," ","S","u",
            "m"," ","o","f"," ","a"," ","B","i","n","a","r","y"," ","T","r",
            "e","e">>,
          "Medium", <<"Tree", "Depth-First Search", "Breadth-First Search", "Binary Tree">>),
      \* part_004:138  Search in a Binary Search Tree
      row("binary-search-tree", 1,
          <<"S","e","a","r","c","h"," ","i","n"," ","a"," ","B","i","n","a",
            "r","y"," ","S","e","a","r","c","h"," ","T","r","e","e">>,
          "Easy", <<"Tree", "Binary Search Tree", "Binary Tree">>),
      \* part_004:139  Delete Node in a BST
      row("binary-search-tree", 2,
          <<"D","e","l","e","t","e"," ","N","o","d","e"," ","i","n"," ","a",
            " ","B","S","T">>,
          "Medium", <<"Tree", "Binary Search Tree", "Binary Tree">>),
      \* part_004:142  Keys and Rooms
      row("graphs-dfs", 1,
          <<"K","e","y","s"," ","a","n","d"," ","R","o","o","m","s">>,
          "Medium", <<"Depth-First Search", "Breadth-First Search", "Graph">>),
      \* part_004:143  Number of Provinces
      row("graphs-dfs", 2,
          <<"N","u","m","b","e","r"," ","o","f"," ","P","r","o","v","i","n",
            "c","e","s">>,
          "Medium", <<"Depth-First Search", "Breadth-First Search", "Union Find", "Graph">>),
      \* part_004:144  Reorder Routes to Make All Paths Lead to the City Zero
      row("graphs-dfs", 3,
          <<"R","e","o","r","d","e","r"," ","R","o","u","t","e","s"," ","t",
            "o"," ","M","a","k","e"," ","A","l","l"," ","P","a","t","h","s",
            " ","L","e","a","d"," ","t","o"," ","t","h","e"," ","C","i","t",
            "y"," ","Z","e","r","o">>,
          "Medium", <<"Depth-First Search", "Breadth-First Search", "Graph">>),
      \* part_004:145  Evaluate Division
      row("graphs-dfs", 4,
          <<"E","v","a","l","u","a","t","e"," ","D","i","v","i","s","i","o",
            "n">>,
          "Medium", <<"Array", "Depth-First Search", "Breadth-First Search", "Union Find", "Graph", "Shortest Path">>),
      \* part_004:148  Nearest Exit from Entrance in Maze
      row("graphs-bfs", 1,
          <<"N","e","a","r","e","s","t"," ","E","x","i","t"," ","f","r","o",
            "m"," ","E","n","t","r","a","n","c","e"," ","i","n"," ","M","a",
            "z","e">>,
          "Medium", <<"Array", "Breadth-First Search", "Matrix">>),
      \* part_004:149  Rotting Oranges
      row("graphs-bfs", 2,
          <<"R","o","t","t","i","n","g"," ","O","r","a","n","g","e","s">>,
          "Medium", <<"Array", "Breadth-First Search", "Matrix">>),
      \* part_004:152  Kth Largest Element in an Array
      row("heap-priority-queue", 1,
          <<"K","t","h"," ","L","a","r","g","e","s","t"," ","E","l","e","m",
            "e","n","t"," ","i","n"," ","a","n"," ","A","r","r","a","y">>,
          "Medium", <<"Array", "Divide and Conquer", "Sorting", "Heap (Priority Queue)", "Quickselect">>),
      \* part_004:153  Smallest Number in Infinite Set
      row("heap-priority-queue", 2,
          <<"S","m","a","l","l","e","s","t"," ","N","u","m","b","e","r"," ",
            "i","n"," ","I","n","f","i","n","i","t","e"," ","S","e","t">>,
          "Medium", <<"Hash Table", "Design", "Heap (Priority Queue)">>),
      \* part_004:154  Maximum Subsequence Score
      row("heap-priority-queue", 3,
          <<"M","a","x","i","m","u","m"," ","S","u","b","s","e","q","u","e",
            "n","c","e"," ","S","c","o","r","e">>,
          "Medium", <<"Array", "Greedy", "Sorting", "Heap (Priority Queue)">>),
      \* part_004:155  Total Cost to Hire K Workers
      row("heap-priority-queue", 4,
          <<"T","o","t","a","l"," ","C","o","s","t"," ","t","o"," ","H","i",
            "r","e"," ","K"," ","W","o","r","k","e","r","s">>,
          "Medium", <<"Array", "Two Pointers", "Simulation", "Heap (Priority Queue)">>),
      \* part_004:158  Guess Number Higher or Lower
      row("binary-search", 1,
          <<"G","u","e","s","s"," ","N","u","m","b","e","r"," ","H","i","g",
            "h","e","r"," ","o","r"," ","L","o","w","e","r">>,
          "Easy", <<"Binary Search", "Interactive">>),
      \* part_004:159  Successful Pairs of Spells and Potions
      row("binary-search", 2,
          <<"S","u","c","c","e","s","s","f","u","l"," ","P","a","i","r","s",
            " ","o","f"," ","S","p","e","l","l","s"," ","a","n","d"," ","P",
            "o","t","i","o","n","s">>,
          "Medium", <<"Array", "Two Pointers", "Binary Search", "Sorting">>),
      \* part_004:160  Find Peak Element
      row("binary-search", 3,
          <<"F","i","n","d"," ","P","e","a","k"," ","E","l","e","m","e","n",
            "t">>,
          "Medium", <<"Array", "Binary Search">>),
      \* part_004:161  Koko Eating Bananas
      row("binary-search", 4,
          <<"K","o","k","o"," ","E","a","t","i","n","g"," ","B","a","n","a",
            "n","a","s">>,
          "Medium", <<"Array", "Binary Search">>),
      \* part_004:164  Letter Combinations of a Phone Number
      row("backtracking", 1,
          <<"L","e","t","t","e","r"," ","C","o","m","b","i","n","a","t","i",
            "o","n","s"," ","o","f"," ","a"," ","P","h","o","n","e"," ","N",
            "u","m","b","e","r">>,
          "Medium", <<"Hash Table", "String", "Backtracking">>),
      \* part_004:165  Combination Sum III
      row("backtracking", 2,
          <<"C","o","m","b","i","n","a","t","i","o","n"," ","S","u","m"," ",
            "I","I","I">>,
          "Medium", <<"Array", "Backtracking">>),
      \* part_004:168  N-th Tribonacci Number
      row("dp-1d", 1,
          <<"N","-","t","h"," ","T","r","i","b","o","n","a","c","c","i"," ",
            "N","u","m","b","e","r">>,
          "Easy", <<"Math", "Dynamic Programming", "Memoization">>),
      \* part_004:169  Min Cost Climbing Stairs
      row("dp-1d", 2,
          <<"M","i","n"," ","C","o","s","t"," ","C","l","i","m","b","i","n",
            "g"," ","S","t","a","i","r","s">>,
          "Easy", <<"Array", "Dynamic Programming">>),
      \* part_004:170  House Robber
      row("dp-1d", 3,
          <<"H","o","u","s","e"," ","R","o","b","b","e","r">>,
          "Medium", <<"Array", "Dynamic Programming">>),
      \* part_004:171  Domino and Tromino Tiling
      row("dp-1d", 4,
          <<"D","o","m","i","n","o"," ","a","n","d"," ","T","r","o","m","i",
            "n","o"," ","T","i","l","i","n","g">>,
          "Medium", <<"Dynamic Programming">>),
      \* part_004:174  Unique Paths
      row("dp-multidimensional", 1,
          <<"U","n","i","q","u","e"," ","P","a","t","h","s">>,
          "Medium", <<"Math", "Dynamic Programming", "Combinatorics">>),
      \* part_004:175  Longest Common Subsequence
      row("dp-multidimensional", 2,
          <<"L","o","n","g","e","s","t"," ","C","o","m","m","o","n"," ","S",
            "u","b","s","e","q","u","e","n","c","e">>,
          "Medium", <<"String", "Dynamic Programming">>),
      \* part_004:176  Best Time to Buy and Sell Stock with Transaction Fee
      row("dp-multidimensional", 3,
          <<"B","e","s","t"," ","T","i","m","e"," ","t","o"," ","B","u","y",
            " ","a","n","d"," ","S","e","l","l"," ","S","t","o","c","k"," ",
            "w","i","t","h"," ","T","r","a","n","s","a","c","t","i","o","n",
            " ","F","e","e">>,
          "Medium", <<"Array", "Dynamic Programming", "Greedy">>),
      \* part_004:177  Edit Distance
      row("dp-multidimensional", 4,
          <<"E","d","i","t"," ","D","i","s","t","a","n","c","e">>,
          "Medium", <<"String", "Dynamic Programming">>),
      \* part_004:180  Counting Bits
      row("bit-manipulation", 1,
          <<"C","o","u","n","t","i","n","g"," ","B","i","t","s">>,
          "Easy", <<"Dynamic Programming", "Bit Manipulation">>),
      \* part_004:181  Single Number
      row("bit-manipulation", 2,
          <<"S","i","n","g","l","e"," ","N","u","m","b","e","r">>,
          "Easy", <<"Array", "Bit Manipulation">>),
      \* part_004:182  Minimum Flips to Make a OR b Equal to c
      row("bit-manipulation", 3,
          <<"M","i","n","i","m","u","m"," ","F","l","i","p","s"," ","t","o",
            " ","M","a","k","e"," ","a"," ","O","R"," ","b"," ","E","q","u",
            "a","l"," ","t","o"," ","c">>,
          "Medium", <<"Bit Manipulation">>),
      \* part_004:185  Implement Trie (Prefix Tree)
      row("trie", 1,
          <<"I","m","p","l","e","m","e","n","t"," ","T","r","i","e"," ","(",
            "P","r","e","f","i","x"," ","T","r","e","e",")">>,
          "Medium", <<"Hash Table", "String", "Design", "Trie">>),
      \* part_004:186  Search Suggestions System
      row("trie", 2,
          <<"S","e","a","r","c","h"," ","S","u","g","g","e","s","t","i","o",
            "n","s"," ","S","y","s","t","e","m">>,
          "Medium", <<"Array", "String", "Trie", "Sorting", "Heap (Priority Queue)">>),
      \* part_004:189  Non-overlapping Intervals
      row("intervals", 1,
          <<"N","o","n","-","o","v","e","r","l","a","p","p","i","n","g"," ",
            "I","n","t","e","r","v","a","l","s">>,
          "Medium", <<"Array", "Dynamic Programming", "Greedy", "Sorting">>),
      \* part_004:190  Minimum Number of Arrows to Burst Balloons
      row("intervals", 2,
          <<"M","i","n","i","m","u","m"," ","N","u","m","b","e","r"," ","o",
            "f"," ","A","r","r","o","w","s"," ","t","o"," ","B","u","r","s",
            "t"," ","B","a","l","l","o","o","n","s">>,
          "Medium", <<"Array", "Greedy", "Sorting">>),
      \* part_004:193  Daily Temperatures
      row("monotonic-stack", 1,
          <<"D","a","i","l","y"," ","T","e","m","p","e","r","a","t","u","r",
            "e","s">>,
          "Medium", <<"Array", "Stack", "Monotonic Stack">>),
      \* part_004:194  Online Stock Span
      row("monotonic-stack", 2,
          <<"O","n","l","i","n","e"," ","S","t","o","c","k"," ","S","p","a",
            "n">>,
          "Medium", <<"Stack", "Design", "Monotonic Stack", "Data Stream">>)
    >>

\* The Documentation Structure of the README (part_000:86-112): each
\* category folder with the number of problems listed for it.
DocumentedStructure ==
    << <<"array-string", 9>>, <<"two-pointers", 4>>,
       <<"sliding-window", 4>>, <<"prefix-sum", 2>>, <<"hash-map-set", 4>>,
       <<"stack", 3>>, <<"queue", 2>>, <<"linked-list", 4>>,
       <<"binary-tree-dfs", 6>>, <<"binary-tree-bfs", 2>>,
       <<"binary-search-tree", 2>>, <<"graphs-dfs", 4>>,
       <<"graphs-bfs", 2>>, <<"heap-priority-queue", 4>>,
       <<"binary-search", 4>>, <<"backtracking", 2>>, <<"dp-1d", 4>>,
       <<"dp-multidimensional", 4>>, <<"bit-manipulation", 3>>,
       <<"trie", 2>>, <<"intervals", 2>>, <<"monotonic-stack", 2>> >>

\* The category directories of the documented structure.
TableDirs == {docsPath([folder |-> e[1]]) : e \in Range(DocumentedStructure)}

(***************************************************************************)
(* The scaffolder as a state machine                                       *)
(***************************************************************************)
EmptyFs == [p \in {} |-> Dir]

Cur == [fs |-> fs, free |-> free, stdout |-> stdout, ops |-> ops, pc |-> pc]

Apply(st) ==
    /\ fs' = st.fs
    /\ free' = st.free
    /\ stdout' = st.stdout
    /\ ops' = st.ops
    /\ pc' = st.pc

InLoop == pc = "run" /\ idx \in DOMAIN problems

AfterCallback == callback(problems[idx], idx, Cur, dirs, readonly)

Init ==
    /\ problems \in Lists
    /\ idx = 1
    /\ pc = "run"
    /\ dirs \in SUBSET CategoryDirs
    /\ \E present \in SUBSET {p \in InitPaths : Front(p) \in dirs} :
           fs \in [present -> InitEntries]
    /\ \E e \in Environments : readonly = e.readonly /\ free = e.free
    /\ stdout = <<>>
    /\ ops = <<>>
    /\ run = 1
    /\ start = [fs |-> fs, free |-> free]
    /\ prev = [problems |-> <<>>, fs |-> EmptyFs, stdout |-> <<>>,
               pc |-> "none"]
    /\ title = <<>>
    /\ str = <<>>
    /\ spc = "idle"

\* The callback on a descriptor whose path exists (part_004:281-284).
Skip ==
    /\ InLoop
    /\ existsSync(fs, filepath(problems[idx]))
    /\ Apply(AfterCallback)
    /\ idx' = nextIndex(problems, idx)
    /\ UNCHANGED <<problems, dirs, readonly, run, start, prev, slugVars>>

\* The callback on a descriptor whose path is free, the write succeeding
\* (part_004:286-289).
Create ==
    /\ InLoop
    /\ ~existsSync(fs, filepath(problems[idx]))
    /\ AfterCallback.pc = "run"
    /\ Apply(AfterCallback)
    /\ idx' = nextIndex(problems, idx)
    /\ UNCHANGED <<problems, dirs, readonly, run, start, prev, slugVars>>

\* The callback on a descriptor whose path is free, writeFileSync throwing
\* (part_004:288): the exception leaves forEach and ends the process.
WriteFail ==
    /\ InLoop
    /\ ~existsSync(fs, filepath(problems[idx]))
    /\ AfterCallback.pc = "aborted"
    /\ Apply(AfterCallback)
    /\ UNCHANGED <<idx, problems, dirs, readonly, run, start, prev, slugVars>>

\* The statement after the loop (part_004:292).
Finish ==
    /\ pc = "run"
    /\ idx \notin DOMAIN problems
    /\ stdout' = Append(stdout, summaryLine(stdout))
    /\ pc' = "done"
    /\ UNCHANGED <<idx, problems, fs, dirs, readonly, free, ops, run, start,
                   prev, slugVars>>

\* The script started again on the same table, the environment as it was
\* left or put right in between (directories made, protection lifted,
\* disk space freed).
StartRun ==
    /\ pc \in {"done", "aborted"}
    /\ run < MaxRuns
    /\ \E repaired \in BOOLEAN :
          /\ dirs' = IF repaired THEN CategoryDirs ELSE dirs
          /\ readonly' = IF repaired THEN FALSE ELSE readonly
          /\ free' = IF repaired THEN Unlimited ELSE free
    /\ prev' = [problems |-> problems, fs |-> fs, stdout |-> stdout,
                pc |-> pc]
    /\ start' = [fs |-> fs, free |-> free']
    /\ run' = run + 1
    /\ idx' = 1
    /\ pc' = "run"
    /\ stdout' = <<>>
    /\ ops' = <<>>
    /\ UNCHANGED <<problems, fs, slugVars>>

Next == Skip \/ Create \/ WriteFail \/ Finish \/ StartRun

Spec == Init /\ [][Next]_vars

(***************************************************************************)
(* One call of slugify, a method of the chain per step                     *)
(***************************************************************************)
SlugInit ==
    /\ title \in SlugTitles
    /\ str = title
    /\ spc = "call"
    /\ problems = <<>>
    /\ idx = 1
    /\ pc = "idle"
    /\ fs = EmptyFs
    /\ dirs = {}
    /\ readonly = FALSE
    /\ free = Unlimited
    /\ stdout = <<>>
    /\ ops = <<>>
    /\ run = 0
    /\ start = [fs |-> EmptyFs, free |-> Unlimited]
    /\ prev = [problems |-> <<>>, fs |-> EmptyFs, stdout |-> <<>>,
               pc |-> "none"]

\* .toLowerCase() (part_004:199)
LowerStep ==
    /\ spc = "call"
    /\ str' = toLowerCase(str)
    /\ spc' = "lowered"
    /\ UNCHANGED <<title, runVars>>

\* .replace(/[^a-z0-9]+/g, '-') (part_004:200)
ReplaceStep ==
    /\ spc = "lowered"
    /\ str' = replaceRuns(str)
    /\ spc' = "replaced"
    /\ UNCHANGED <<title, runVars>>

\* .replace(/(^-|-$)/g, '') and the return (part_004:201)
StripStep ==
    /\ spc = "replaced"
    /\ str' = stripEnds(str)
    /\ spc' = "returned"
    /\ UNCHANGED <<title, runVars>>

SlugNext == LowerStep \/ ReplaceStep \/ StripStep

SlugSpec == SlugInit /\ [][SlugNext]_vars

(***************************************************************************)
(* Descriptors of any shape: the values of JavaScript                      *)
(***************************************************************************)
\* A value with its type; val is the text of a string (its tokens), the
\* decimal digits of a number, the elements of an array.
Undefined == [type |-> "undefined", val |-> <<>>]
JsString(s) == [type |-> "string", val |-> s]
JsNumber(n) == [type |-> "number", val |-> NumStr(n)]
JsArray(a) == [type |-> "array", val |-> a]

\* Array.prototype.join(',') of Array.prototype.toString.
RECURSIVE joinComma(_)
joinComma(a) ==
    IF a = <<>> THEN <<>>
    ELSE IF Len(a) = 1 THEN <<a[1]>>
    ELSE <<a[1], ",">> \o joinComma(Tail(a))

\* A bug: a value that is not there rendered as nothing.
ToStringBlank(v) ==
    IF v.type = "undefined" THEN <<>>
    ELSE IF v.type = "array" THEN joinComma(v.val)
    ELSE v.val

\* ${value} in a template literal: String(value).
jsToString(v) ==
    IF v.type = "undefined" THEN <<"undefined">>
    ELSE IF v.type = "array" THEN joinComma(v.val)
    ELSE v.val

\* generateProblemTemplate on a descriptor whose title is a string and
\* whose tags are an array (part_004:204-271).
looseTemplate(problem) ==
    templateOf(jsToString(problem.position), problem.title.val,
               tagsString(problem.tags.val), jsToString(problem.difficulty),
               slugify(problem.title.val))

\* An exception of the language itself leaving the callback: title.toLowerCase
\* (part_004:199) or problem.tags.map (206) on a value without that method.
thrown(call, i, st) ==
    [st EXCEPT !.pc = "aborted",
               !.ops = Append(@, [op |-> call, at |-> i, path |-> <<>>,
                                  res |-> "TypeError"])]

\* The callback of problems.forEach on a descriptor of any shape
\* (part_004:274-290).
looseCallback(problem, i, st, d, ro) ==
    IF problem.title.type # "string"
    THEN thrown("toLowerCase", i, st)
    ELSE LET fp == filepath([folder |-> problem.folder,
                             title |-> problem.title.val])
             checked == [st EXCEPT !.ops =
                            Append(@, [op |-> "existsSync", at |-> i,
                                       path |-> fp,
                                       res |-> IF existsSync(st.fs, fp)
                                               THEN "exists" ELSE "absent"])]
         IN  IF existsSync(st.fs, fp)
             THEN skipBranch(fp, checked)
             ELSE IF problem.tags.type # "array"
             THEN thrown("map", i, checked)
             ELSE writeContent(looseTemplate(problem), i, fp, checked, d, ro)

\* Rows of the table with a field missing or of another type.
WellFormed ==
    [folder |-> "stack", position |-> JsNumber(1), title |-> JsString(TwoSum),
     difficulty |-> JsString(<<"Easy">>), tags |-> JsArray(<<"Array">>)]
LooseCatalogue ==
    { WellFormed,
      [WellFormed EXCEPT !.title = Undefined],
      [WellFormed EXCEPT !.title = JsNumber(7)],
      [WellFormed EXCEPT !.tags = Undefined],
      [WellFormed EXCEPT !.tags = JsString(<<"Array">>)],
      [WellFormed EXCEPT !.position = Undefined],
      [WellFormed EXCEPT !.position = JsString(<<"first">>),
                         !.difficulty = Undefined],
      [WellFormed EXCEPT !.folder = "trie",
                         !.difficulty = JsArray(<<"Easy", "Hard">>)] }
LooseLists == SeqsUpTo(LooseCatalogue, MaxProblems)

LooseInit ==
    /\ problems \in LooseLists
    /\ idx = 1
    /\ pc = "run"
    /\ dirs = CategoryDirs
    /\ \E present \in SUBSET {filepath([folder |-> f, title |-> TwoSum]) :
                                f \in Folders} :
           fs = [p \in present |-> File(<<"my notes">>)]
    /\ readonly \in BOOLEAN
    /\ free = Unlimited
    /\ stdout = <<>>
    /\ ops = <<>>
    /\ run = 1
    /\ start = [fs |-> fs, free |-> free]
    /\ prev = [problems |-> <<>>, fs |-> EmptyFs, stdout |-> <<>>,
               pc |-> "none"]
    /\ title = <<>>
    /\ str = <<>>
    /\ spc = "idle"

AfterLooseCallback == looseCallback(problems[idx], idx, Cur, dirs, readonly)

\* The callback that ends in a line printed: the file skipped or created.
LooseOutcome ==
    /\ InLoop
    /\ AfterLooseCallback.pc = "run"
    /\ Apply(AfterLooseCallback)
    /\ idx' = nextIndex(problems, idx)
    /\ UNCHANGED <<problems, dirs, readonly, run, start, prev, slugVars>>

\* The callback left by a TypeError (part_004:199, 206).
LooseTypeError ==
    /\ InLoop
    /\ AfterLooseCallback.pc = "aborted"
    /\ Last(AfterLooseCallback.ops).res = "TypeError"
    /\ Apply(AfterLooseCallback)
    /\ UNCHANGED <<idx, problems, dirs, readonly, run, start, prev, slugVars>>

\* The callback left by the exception of writeFileSync (part_004:288).
LooseWriteFail ==
    /\ InLoop
    /\ AfterLooseCallback.pc = "aborted"
    /\ Last(AfterLooseCallback.ops).res # "TypeError"
    /\ Apply(AfterLooseCallback)
    /\ UNCHANGED <<idx, problems, dirs, readonly, run, start, prev, slugVars>>

LooseNext == LooseOutcome \/ LooseTypeError \/ LooseWriteFail \/ Finish

LooseSpec == LooseInit /\ [][LooseNext]_vars

(***************************************************************************)
(* Two invocations of the script at once on one table and one docs tree:   *)
(* the existence check (part_004:281) and the write (288) of an invocation *)
(* are separate steps, and the steps of the other may fall between them.   *)
(* idx, pc and stdout are here per invocation; pc is "check" | "write" |   *)
(* "done" | "aborted".                                                     *)
(***************************************************************************)
Invocations == {"first", "second"}

ConcInit ==
    /\ problems \in Lists
    /\ idx = [p \in Invocations |-> 1]
    /\ pc = [p \in Invocations |-> "check"]
    /\ dirs \in SUBSET CategoryDirs
    /\ \E present \in SUBSET {p \in InitPaths : Front(p) \in dirs} :
           fs = [p \in present |-> File(<<"my notes">>)]
    /\ \E e \in Environments : readonly = e.readonly /\ free = e.free
    /\ stdout = [p \in Invocations |-> <<>>]
    /\ ops = <<>>
    /\ run = 1
    /\ start = [fs |-> fs, free |-> free]
    /\ prev = [problems |-> <<>>, fs |-> EmptyFs, stdout |-> <<>>,
               pc |-> "none"]
    /\ title = <<>>
    /\ str = <<>>
    /\ spc = "idle"

\* What invocation p reads of the state.
CurOf(p) ==
    [fs |-> fs, free |-> free, stdout |-> stdout[p], ops |-> ops, pc |-> "run"]

\* if (fs.existsSync(filepath)) { console.log(...); return; }
ConcCheck(p) ==
    /\ pc[p] = "check"
    /\ idx[p] \in DOMAIN problems
    /\ LET fp == filepath(problems[idx[p]])
           found == existsSync(fs, fp)
       IN  /\ ops' = Append(ops, [op |-> "existsSync", at |-> idx[p],
                                  path |-> fp,
                                  res |-> IF found THEN "exists" ELSE "absent"])
           /\ stdout' = [stdout EXCEPT ![p] =
                            IF found THEN skipBranch(fp, CurOf(p)).stdout ELSE @]
           /\ idx' = [idx EXCEPT ![p] =
                         IF found THEN nextIndex(problems, @) ELSE @]
           /\ pc' = [pc EXCEPT ![p] = IF found THEN "check" ELSE "write"]
    /\ UNCHANGED <<problems, fs, free, dirs, readonly, run, start, prev,
                   slugVars>>

\* fs.writeFileSync(filepath, content, 'utf8'); console.log(...)
ConcWrite(p) ==
    /\ pc[p] = "write"
    /\ LET after == writeBranch(problems[idx[p]], idx[p],
                                filepath(problems[idx[p]]), CurOf(p),
                                dirs, readonly)
       IN  /\ fs' = after.fs
           /\ free' = after.free
           /\ ops' = after.ops
           /\ stdout' = [stdout EXCEPT ![p] = after.stdout]
           /\ idx' = [idx EXCEPT ![p] =
                         IF after.pc = "run" THEN nextIndex(problems, @) ELSE @]
           /\ pc' = [pc EXCEPT ![p] =
                        IF after.pc = "run" THEN "check" ELSE "aborted"]
    /\ UNCHANGED <<problems, dirs, readonly, run, start, prev, slugVars>>

\* The statement after the loop (part_004:292).
ConcFinish(p) ==
    /\ pc[p] = "check"
    /\ idx[p] \notin DOMAIN problems
    /\ stdout' = [stdout EXCEPT ![p] = Append(@, summaryLine(@))]
    /\ pc' = [pc EXCEPT ![p] = "done"]
    /\ UNCHANGED <<idx, problems, fs, dirs, readonly, free, ops, run, start,
                   prev, slugVars>>

ConcNext ==
    \E p \in Invocations : ConcCheck(p) \/ ConcWrite(p) \/ ConcFinish(p)

ConcSpec == ConcInit /\ [][ConcNext]_vars

(***************************************************************************)
(* Runs one after another, each on a table of its own: ops is here the     *)
(* record of the fs calls of all the runs so far.                          *)
(***************************************************************************)
\* The tables of these runs: rows in the order of their positions, none
\* twice.
ManyLists ==
    {l \in Lists : \A i, j \in DOMAIN l :
                       i < j => l[i].position < l[j].position}

\* The script started again after the table was edited, the environment
\* as it was left or put right in between.
NextRun ==
    /\ pc \in {"done", "aborted"}
    /\ run < MaxRuns
    /\ problems' \in ManyLists
    /\ \E repaired \in BOOLEAN :
          /\ dirs' = IF repaired THEN CategoryDirs ELSE dirs
          /\ readonly' = IF repaired THEN FALSE ELSE readonly
          /\ free' = IF repaired THEN Unlimited ELSE free
    /\ prev' = [problems |-> problems, fs |-> fs, stdout |-> stdout,
                pc |-> pc]
    /\ start' = [fs |-> fs, free |-> free']
    /\ run' = run + 1
    /\ idx' = 1
    /\ pc' = "run"
    /\ stdout' = <<>>
    /\ UNCHANGED <<fs, ops, slugVars>>

ManyInit ==
    /\ problems \in ManyLists
    /\ idx = 1
    /\ pc = "run"
    /\ dirs \in SUBSET CategoryDirs
    /\ \E present \in SUBSET {p \in InitPaths : Front(p) \in dirs} :
           fs = [p \in present |-> File(<<"my notes">>)]
    /\ \E e \in Environments : readonly = e.readonly /\ free = e.free
    /\ stdout = <<>>
    /\ ops = <<>>
    /\ run = 1
    /\ start = [fs |-> fs, free |-> free]
    /\ prev = [problems |-> <<>>, fs |-> EmptyFs, stdout |-> <<>>,
               pc |-> "none"]
    /\ title = <<>>
    /\ str = <<>>
    /\ spc = "idle"

ManyNext == Skip \/ Create \/ WriteFail \/ Finish \/ NextRun

ManySpec == ManyInit /\ [][ManyNext]_vars

(***************************************************************************)
(* One run to its end: the script is a sequential program that the         *)
(* runtime executes to completion, so a step that can be taken is taken.   *)
(***************************************************************************)
\* One call of the callback by forEach (part_004:274-290).
CallbackStep == Skip \/ Create \/ WriteFail

RunNext == CallbackStep \/ Finish

\* Weak fairness of the callback step, WF_vars(CallbackStep), written by
\* its definition []<>~ENABLED <<A>>_v \/ []<><<A>>_v: the step is enabled
\* exactly while the loop has an element left (one of the three guards of
\* Skip, Create and WriteFail holds of every such state, and each of them
\* lengthens ops).
CallbackFair == []<>(~InLoop) \/ []<><<CallbackStep>>_vars

RunSpec == Init /\ [][RunNext]_vars /\ CallbackFair /\ WF_vars(Finish)

(***************************************************************************)
(* One run of the script on its built-in table.  The category directories  *)
(* exist, or one of them is missing; the tree is empty, or holds the file  *)
(* of the one problem the README reports as completed (part_000:210).      *)
(***************************************************************************)
CompletedPaths == {filepath(ProblemTable[1])}

TableInit ==
    /\ problems = ProblemTable
    /\ idx = 1
    /\ pc = "run"
    /\ dirs \in {TableDirs, TableDirs \ {docsPath([folder |-> "trie"])}}
    /\ \E present \in SUBSET CompletedPaths :
           fs = [p \in present |-> File(<<"my notes">>)]
    /\ readonly = FALSE
    /\ free = Unlimited
    /\ stdout = <<>>
    /\ ops = <<>>
    /\ run = 1
    /\ start = [fs |-> fs, free |-> free]
    /\ prev = [problems |-> <<>>, fs |-> EmptyFs, stdout |-> <<>>,
               pc |-> "none"]
    /\ title = <<>>
    /\ str = <<>>
    /\ spc = "idle"

TableSpec == TableInit /\ [][RunNext]_vars

(***************************************************************************)
(* Helpers of the properties                                               *)
(***************************************************************************)
\* sub occurs in s as a contiguous piece.
IsInfix(sub, s) ==
    \E i \in 0..(Len(s) - Len(sub)) : SubSeq(s, i + 1, i + Len(sub)) = sub

Remove(s, k) == SubSeq(s, 1, k - 1) \o SubSeq(s, k + 1, Len(s))

\* The per-descriptor lines of this run: stdout without the closing line.
Outcomes == IF pc = "done" THEN Front(stdout) ELSE stdout
IsSkipped(line) == Head(line) = SkipPrefix
IsCreated(line) == Head(line) = CreatedPrefix
LinePath(line) == Tail(line)

TargetPaths == {filepath(problems[i]) : i \in DOMAIN problems}

(***************************************************************************)
(* C1  Non-destructive: whatever lies at a descriptor's target path when   *)
(* the run starts (an empty file, unrelated text, anything) is still       *)
(* there, with the same content, in every state of the run and after it.   *)
(***************************************************************************)
C1_NonDestructive ==
    \A p \in TargetPaths :
        p \in DOMAIN start.fs => p \in DOMAIN fs /\ fs[p] = start.fs[p]

\* A completed run that met an empty and an unrelated file at target
\* paths and could have written (directory there, no fault).
C1_Witness ==
    /\ pc = "done"
    /\ ~readonly /\ free = Unlimited
    /\ \E i, j \in DOMAIN problems :
          /\ filepath(problems[i]) \in DOMAIN start.fs
          /\ start.fs[filepath(problems[i])] = File(<<>>)
          /\ filepath(problems[j]) \in DOMAIN start.fs
          /\ start.fs[filepath(problems[j])] = File(<<"my notes">>)

(***************************************************************************)
(* C2  Idempotence: when a run that completed is followed by a run on the  *)
(* same list that completes, the files and their contents after the second *)
(* run are those after the first, and the second run reports every         *)
(* descriptor as skipped and none as created.                              *)
(***************************************************************************)
C2_Idempotent ==
    (pc = "done" /\ prev.pc = "done" /\ prev.problems = problems) =>
        /\ fs = prev.fs
        /\ Len(Outcomes) = Len(problems)
        /\ \A i \in DOMAIN Outcomes : IsSkipped(Outcomes[i])

\* A second completed run after a first one that created a file.
C2_Witness ==
    /\ pc = "done" /\ prev.pc = "done" /\ prev.problems = problems
    /\ run = 2
    /\ Len(problems) = 2
    /\ \E i \in DOMAIN prev.stdout : IsCreated(prev.stdout[i])

(***************************************************************************)
(* C3  One output per new descriptor: a step that processes a descriptor   *)
(* whose target path does not exist, and whose write does not throw, adds  *)
(* exactly one entry to the filesystem, a file at that target path, whose  *)
(* text holds the position, the title, the difficulty and every tag of the *)
(* descriptor; nothing else changes on disk.                               *)
(***************************************************************************)
HoldsFields(text, problem) ==
    /\ IsInfix(<<"---\nsidebar_position: ">> \o NumStr(problem.position)
               \o <<"\ntitle: \"">> \o problem.title \o <<"\"\ntags: [">>,
               text)
    /\ IsInfix(<<"\n\n> **Difficulty:** ", problem.difficulty>>, text)
    /\ \A k \in DOMAIN problem.tags :
           IsInfix(<<"\"", problem.tags[k], "\"">>, text)

C3_Step ==
    (InLoop /\ ~existsSync(fs, filepath(problems[idx])) /\ pc' = "run") =>
        LET p == problems[idx]
            fp == filepath(p)
        IN  /\ DOMAIN fs' = DOMAIN fs \cup {fp}
            /\ fs'[fp].kind = "file"
            /\ HoldsFields(fs'[fp].data, p)
            /\ \A q \in DOMAIN fs : fs'[q] = fs[q]

C3_OneOutputPerNew == [][C3_Step]_vars

\* The descriptor with two tags was just created, the file holding it.
C3_Witness ==
    /\ pc = "run" /\ idx = 2
    /\ Len(problems[1].tags) = 2
    /\ IsCreated(stdout[1])
    /\ filepath(problems[1]) \notin DOMAIN start.fs
    /\ fs[filepath(problems[1])].kind = "file"
    /\ HoldsFields(fs[filepath(problems[1])].data, problems[1])

(***************************************************************************)
(* C4  slugify equals the reference rule: lower-case the title, replace    *)
(* each maximal run of characters outside [a-z0-9] by one hyphen, remove a *)
(* hyphen at the very start and at the very end.  The rule is written here *)
(* over index sets, not as a scan.                                         *)
(***************************************************************************)
RefFold(c) ==
    CASE c = "A" -> "a" []
         c = "B" -> "b" []
         c = "C" -> "c" []
         c = "D" -> "d" []
         c = "E" -> "e" []
         c = "F" -> "f" []
         c = "G" -> "g" []
         c = "H" -> "h" []
         c = "I" -> "i" []
         c = "J" -> "j" []
         c = "K" -> "k" []
         c = "L" -> "l" []
         c = "M" -> "m" []
         c = "N" -> "n" []
         c = "O" -> "o" []
         c = "P" -> "p" []
         c = "Q" -> "q" []
         c = "R" -> "r" []
         c = "S" -> "s" []
         c = "T" -> "t" []
         c = "U" -> "u" []
         c = "V" -> "v" []
         c = "W" -> "w" []
         c = "X" -> "x" []
         c = "Y" -> "y" []
         c = "Z" -> "z" []
         c = KelvinSign -> "k"
      [] OTHER -> c

RefSlug(t) ==
    LET L == [i \in DOMAIN t |-> RefFold(t[i])]
        alnum(i) == L[i] \in ClassChars
        \* the first index of each maximal run of other characters
        runStart(i) == ~alnum(i) /\ (i = 1 \/ alnum(i - 1))
        kept == SelectSeq([i \in 1..Len(t) |-> i],
                          LAMBDA i : alnum(i) \/ runStart(i))
        collapsed == [k \in DOMAIN kept |->
                         IF alnum(kept[k]) THEN L[kept[k]] ELSE "-"]
        a == IF collapsed # <<>> /\ collapsed[1] = "-"
             THEN SubSeq(collapsed, 2, Len(collapsed)) ELSE collapsed
    IN  IF a # <<>> /\ a[Len(a)] = "-" THEN SubSeq(a, 1, Len(a) - 1) ELSE a

NthTribonacciSlug ==
    <<"n","-","t","h","-","t","r","i","b","o","n","a","c","c","i","-",
      "n","u","m","b","e","r">>

C4_SlugifyIsReference ==
    spc = "returned" =>
        /\ str = RefSlug(title)
        /\ title = NthTribonacci => str = NthTribonacciSlug
        /\ title = <<"a", "'", "b">> => str = <<"a", "-", "b">>

\* The documented example has gone through the whole chain.
C4_Witness ==
    spc = "returned" /\ title = NthTribonacci /\ str = NthTribonacciSlug

(***************************************************************************)
(* C5  Slug determinism: the slug is decided by the title alone, and a     *)
(* title changed only in the case of a letter, in which character stands   *)
(* in a separator run, or in how many separators a run (leading and        *)
(* trailing ones included) has, keeps its slug.  One such change is        *)
(* checked from every title; chains of changes follow from it.             *)
(***************************************************************************)
IsSep(c) == ~InClass(RefFold(c))
Separators == {c \in Alphabet : IsSep(c)}

FlipCase(c) ==
    IF c \in UpperSet THEN RefFold(c)
    ELSE IF c \in Range(LowerSeq)
         THEN UpperSeq[CHOOSE i \in DOMAIN LowerSeq : LowerSeq[i] = c]
    ELSE c

InsertAt(t, p, c) == SubSeq(t, 1, p) \o <<c>> \o SubSeq(t, p + 1, Len(t))

Variants(t) ==
    {[t EXCEPT ![i] = FlipCase(t[i])] : i \in DOMAIN t}
    \cup {[t EXCEPT ![i] = c] : i \in {j \in DOMAIN t : IsSep(t[j])},
                                c \in Separators}
    \cup {InsertAt(t, p, c) :
              p \in {q \in 0..Len(t) : \/ q = 0
                                       \/ q = Len(t)
                                       \/ IsSep(t[q])
                                       \/ IsSep(t[q + 1])},
              c \in Separators}

C5_SlugDeterminism ==
    spc = "returned" => \A v \in Variants(title) : slugify(v) = str

\* A title with a capital, a separator run and a trailing separator.
C5_Witness ==
    /\ spc = "returned"
    /\ title = <<"A", " ", ")">>
    /\ str = <<"a">>
    /\ <<"a", "-", "(", " ">> \in Variants(<<"a", "-", " ">>)

(***************************************************************************)
(* C6  The target path.  Every path the run checks or writes is            *)
(* repo/docs/leetcode-75/<folder>/<slug>.mdx with slug = slugify(title):   *)
(* the category directory lies under docs/leetcode-75, not directly under  *)
(* docs; and the path is the same whatever the position, the difficulty    *)
(* and the tags of the descriptor.                                         *)
(***************************************************************************)
Positions == {1, 2, 12}
TagLists == {<<>>, <<"Array">>, <<"Trie", "Trie">>}

UnderLeetcode75(problem) ==
    << <<"repo">>, <<"docs">>, <<"leetcode-75">>, <<problem.folder>>,
       slugify(problem.title) \o <<".mdx">> >>

DirectlyUnderDocs(problem) ==
    << <<"repo">>, <<"docs">>, <<problem.folder>>,
       slugify(problem.title) \o <<".mdx">> >>

C6_TargetPath ==
    /\ \A k \in DOMAIN ops :
           ops[k].path = UnderLeetcode75(problems[ops[k].at])
    /\ InLoop =>
           LET p == problems[idx]
           IN  \A pos \in Positions, diff \in Difficulties, tg \in TagLists :
                   filepath([p EXCEPT !.position = pos, !.difficulty = diff,
                                      !.tags = tg]) = UnderLeetcode75(p)

\* The claim as stated: the category directory directly under docs.
C6_AsStated ==
    \A k \in DOMAIN ops : ops[k].path = DirectlyUnderDocs(problems[ops[k].at])

\* A file was written for a descriptor of folder trie.
C6_Witness ==
    \E k \in DOMAIN ops :
        /\ ops[k].op = "writeFileSync"
        /\ problems[ops[k].at].folder = "trie"
        /\ ops[k].path \in DOMAIN fs
        /\ ops[k].path[3] = <<"leetcode-75">>

(***************************************************************************)
(* C7  A completed run has checked the descriptors in input order, each    *)
(* once, and has printed one line per descriptor, created or skipped, in   *)
(* input order, each carrying the descriptor's own target path; so created *)
(* plus skipped is the number of descriptors.                              *)
(***************************************************************************)
ExistsChecks == SelectSeq(ops, LAMBDA o : o.op = "existsSync")
CreatedCount == Cardinality({i \in DOMAIN Outcomes : IsCreated(Outcomes[i])})
SkippedCount == Cardinality({i \in DOMAIN Outcomes : IsSkipped(Outcomes[i])})

C7_OneOutcomeEachInOrder ==
    pc = "done" =>
        /\ Len(ExistsChecks) = Len(problems)
        /\ \A i \in DOMAIN ExistsChecks : ExistsChecks[i].at = i
        /\ Len(Outcomes) = Len(problems)
        /\ \A i \in DOMAIN Outcomes :
               /\ IsCreated(Outcomes[i]) \/ IsSkipped(Outcomes[i])
               /\ LinePath(Outcomes[i]) = PathStr(filepath(problems[i]))
        /\ CreatedCount + SkippedCount = Len(problems)

\* A completed run of two descriptors with different paths, the first
\* created and the second skipped.
C7_Witness ==
    /\ pc = "done"
    /\ Len(problems) = 2
    /\ filepath(problems[1]) # filepath(problems[2])
    /\ IsCreated(Outcomes[1])
    /\ IsSkipped(Outcomes[2])

(***************************************************************************)
(* C8  The closing line.  A completed run ends its output with one fixed   *)
(* line, the same whatever was created or skipped; it reports no count.    *)
(***************************************************************************)
ClosingLine == <<"\nAll LeetCode ", "75", " problem files generated!">>

C8_FixedClosingLine ==
    pc = "done" =>
        /\ stdout # <<>>
        /\ Last(stdout) = ClosingLine
        /\ ~IsCreated(Last(stdout)) /\ ~IsSkipped(Last(stdout))

\* The claim as stated: the numbers created and skipped are reported at
\* the end of a completed run.
C8_AsStated ==
    pc = "done" =>
        /\ IsInfix(<<ToString(CreatedCount)>>, Last(stdout))
        /\ IsInfix(<<ToString(SkippedCount)>>, Last(stdout))

\* A completed run with one descriptor created and one skipped.
C8_Witness ==
    /\ pc = "done"
    /\ CreatedCount = 1
    /\ SkippedCount = 1
    /\ Last(stdout) = ClosingLine

(***************************************************************************)
(* C9  Abort on the first write failure: once the write for descriptor i   *)
(* has failed (it was attempted and the complete file is not there), the   *)
(* run is over at i: no later descriptor is checked or written, nothing    *)
(* was printed for i or after it, no step of the run is left to take, and  *)
(* every file created for a lower index is still in place.                 *)
(***************************************************************************)
FailedWriteAt(i) ==
    \E k \in DOMAIN ops :
        /\ ops[k].op = "writeFileSync"
        /\ ops[k].at = i
        /\ \/ ops[k].path \notin DOMAIN fs
           \/ fs[ops[k].path] # File(generateProblemTemplate(problems[i]))

C9_AbortOnFirstWriteFailure ==
    \A i \in DOMAIN problems :
        FailedWriteAt(i) =>
            /\ pc = "aborted"
            /\ idx = i
            /\ \A k \in DOMAIN ops : ops[k].at <= i
            /\ Last(ops).op = "writeFileSync" /\ Last(ops).at = i
            /\ Len(stdout) = i - 1
            /\ \A j \in 1..(i - 1) :
                   IsCreated(stdout[j]) =>
                       /\ filepath(problems[j]) \in DOMAIN fs
                       /\ fs[filepath(problems[j])] =
                              File(generateProblemTemplate(problems[j]))
            /\ ~ENABLED (Skip \/ Create \/ WriteFail \/ Finish)

\* The first descriptor was created and the write of the second failed.
C9_Witness ==
    /\ pc = "aborted"
    /\ idx = 2
    /\ FailedWriteAt(2)
    /\ IsCreated(stdout[1])
    /\ fs[filepath(problems[1])] = File(generateProblemTemplate(problems[1]))

(***************************************************************************)
(* C10  A skip neither stops nor alters the rest of the run: when a run    *)
(* has ended, for every descriptor it skipped, the run of the list without *)
(* that descriptor from the same start prints the same lines for the other *)
(* descriptors, ends the same way and leaves the same disk; and in a       *)
(* completed run every descriptor after a skipped one was checked.         *)
(***************************************************************************)
StartState ==
    [fs |-> start.fs, free |-> start.free, stdout |-> <<>>, ops |-> <<>>,
     pc |-> "run"]

C10_SkipLeavesTheRestAlone ==
    pc \in {"done", "aborted"} =>
        \A k \in DOMAIN Outcomes :
            IsSkipped(Outcomes[k]) =>
                LET without == forEachFrom(Remove(problems, k), 1, StartState,
                                           dirs, readonly)
                IN  /\ without.stdout = Remove(Outcomes, k)
                    /\ without.fs = fs
                    /\ without.free = free
                    /\ (without.pc = "aborted") <=> (pc = "aborted")
                    /\ pc = "done" =>
                           \A j \in (k + 1)..Len(problems) :
                               \E o \in DOMAIN ops :
                                   /\ ops[o].op = "existsSync"
                                   /\ ops[o].at = j

\* A completed run that skipped its first descriptor and created its second.
C10_Witness ==
    /\ pc = "done"
    /\ Len(problems) = 2
    /\ IsSkipped(Outcomes[1])
    /\ IsCreated(Outcomes[2])

(***************************************************************************)
(* C11  The scaffolder never creates a directory: a step that processes a  *)
(* descriptor whose category directory does not exist ends the run with    *)
(* the write failing (ENOENT), and after it neither the directory nor the  *)
(* target file exists.                                                     *)
(***************************************************************************)
\* A directory exists when it is among the directories on disk or holds
\* an entry.
DirExists(f, d, dir) == dir \in d \/ \E q \in DOMAIN f : Front(q) = dir

C11_Step ==
    (InLoop /\ ~DirExists(fs, dirs, docsPath(problems[idx]))) =>
        /\ pc' = "aborted"
        /\ ops' # <<>>
        /\ Last(ops').op = "writeFileSync"
        /\ Last(ops').at = idx
        /\ Last(ops').res = "ENOENT"
        /\ ~DirExists(fs', dirs', docsPath(problems[idx]))
        /\ filepath(problems[idx]) \notin DOMAIN fs'

C11_NeverCreatesADirectory == [][C11_Step]_vars

\* The first descriptor was created in its directory, the second failed
\* for want of its own.
C11_Witness ==
    /\ pc = "aborted"
    /\ idx = 2
    /\ IsCreated(stdout[1])
    /\ Last(ops).res = "ENOENT"
    /\ docsPath(problems[2]) \notin dirs
    /\ filepath(problems[2]) \notin DOMAIN fs

(***************************************************************************)
(* C12  Frame of a run: a step of a run leaves every entry that exists as  *)
(* it is (nothing is deleted, truncated or appended to), adds at most one  *)
(* entry, a file at the target path of the descriptor it processes, and    *)
(* leaves the directories alone; so the set of existing paths only grows.  *)
(* (A write that fails for want of disk space leaves its partial file at   *)
(* that target path.)                                                      *)
(***************************************************************************)
C12_Step ==
    pc = "run" =>
        /\ \A q \in DOMAIN fs : q \in DOMAIN fs' /\ fs'[q] = fs[q]
        /\ DOMAIN fs' \ DOMAIN fs \subseteq
               (IF InLoop THEN {filepath(problems[idx])} ELSE {})
        /\ \A q \in DOMAIN fs' \ DOMAIN fs : fs'[q].kind = "file"
        /\ dirs' = dirs

C12_Frame == [][C12_Step]_vars

\* A run that met an entry at one target path and created a file at the
\* other has completed.
C12_Witness ==
    /\ pc = "done"
    /\ Len(problems) = 2
    /\ DOMAIN start.fs # {}
    /\ DOMAIN fs # DOMAIN start.fs
    /\ \A q \in DOMAIN start.fs : fs[q] = start.fs[q]

(***************************************************************************)
(* C13  Per descriptor the run makes exactly one existence check and at    *)
(* most one write attempt: the checks are at the indices 1, 2, ... in      *)
(* order, a write comes right after the check of its own descriptor, which *)
(* found nothing, and before the check of the next; a failed write is the  *)
(* last call of the run, so no write is ever retried.                      *)
(***************************************************************************)
ChecksAt(i) ==
    {k \in DOMAIN ops : ops[k].op = "existsSync" /\ ops[k].at = i}
WritesAt(i) ==
    {k \in DOMAIN ops : ops[k].op = "writeFileSync" /\ ops[k].at = i}
Processed ==
    IF pc = "aborted" THEN 1..idx ELSE {i \in DOMAIN problems : i < idx}

C13_OneCheckAtMostOneWrite ==
    /\ \A i \in DOMAIN problems :
           /\ Cardinality(ChecksAt(i)) = (IF i \in Processed THEN 1 ELSE 0)
           /\ Cardinality(WritesAt(i)) <= 1
           /\ i \notin Processed => WritesAt(i) = {}
    /\ \A k \in DOMAIN ops :
           ops[k].op = "writeFileSync" =>
               /\ k > 1
               /\ ops[k - 1].op = "existsSync"
               /\ ops[k - 1].at = ops[k].at
               /\ ops[k - 1].res = "absent"
               /\ k < Len(ops) =>
                      /\ ops[k].res = "none"
                      /\ ops[k + 1].op = "existsSync"
                      /\ ops[k + 1].at = ops[k].at + 1
    /\ \A k \in DOMAIN ExistsChecks : ExistsChecks[k].at = k

\* A write between the checks of the first and of the second descriptor,
\* and a second write that failed.
C13_Witness ==
    /\ pc = "aborted"
    /\ Len(ops) = 4
    /\ ops[2].op = "writeFileSync" /\ ops[2].res = "none"
    /\ ops[3].op = "existsSync"
    /\ ops[4].op = "writeFileSync" /\ ops[4].res # "none"

(***************************************************************************)
(* C15  The tags list in the front-matter of a created file holds every    *)
(* tag of the descriptor between double quotes, the items separated by     *)
(* ", ", in the order of the descriptor and with duplicates kept (as many  *)
(* items as the tags sequence has elements); an empty sequence gives [].   *)
(***************************************************************************)
TagsOpen == "\"\ntags: ["
TagsClose == "]\n---\n\n# "

\* The tokens of a text between the opening and the closing of its tags
\* list.
TagsListOf(text) ==
    LET a == CHOOSE k \in DOMAIN text : text[k] = TagsOpen
        b == CHOOSE k \in DOMAIN text : text[k] = TagsClose
    IN  SubSeq(text, a + 1, b - 1)

\* The list by position: item n occupies the places 4n-3 .. 4n-1, a
\* separator stands at every place 4n.
RefTags(tags) ==
    [j \in 1..(IF tags = <<>> THEN 0 ELSE 4 * Len(tags) - 1) |->
        IF j % 4 = 2 THEN tags[(j + 2) \div 4]
        ELSE IF j % 4 = 0 THEN ", " ELSE "\""]

QuotedItems(list) ==
    {j \in DOMAIN list : j % 4 = 2 /\ list[j - 1] = "\"" /\ list[j + 1] = "\""}

C15_TagsList ==
    \A k \in DOMAIN ops :
        (ops[k].op = "writeFileSync" /\ ops[k].res = "none") =>
            LET text == fs[ops[k].path].data
                tags == problems[ops[k].at].tags
            IN  /\ \E a \in DOMAIN text : text[a] = TagsOpen
                /\ \E b \in DOMAIN text : text[b] = TagsClose
                /\ TagsListOf(text) = RefTags(tags)
                /\ Cardinality(QuotedItems(TagsListOf(text))) = Len(tags)
                /\ tags = <<>> => TagsListOf(text) = <<>>

\* A run that created a file with a repeated tag and a file with no tag.
C15_Witness ==
    /\ pc = "done"
    /\ \E k \in DOMAIN ops :
           /\ ops[k].res = "none"
           /\ TagsListOf(fs[ops[k].path].data)
                  = <<"\"", "Trie", "\"", ", ", "\"", "Trie", "\"">>
    /\ \E k \in DOMAIN ops :
           /\ ops[k].res = "none"
           /\ problems[ops[k].at].tags = <<>>
           /\ TagsListOf(fs[ops[k].path].data) = <<>>

(***************************************************************************)
(* C14  The text of a created file starts with the front-matter            *)
(* (sidebar_position, title, tags, in this order), goes on with the title  *)
(* heading, the difficulty line and the link built from the slug, and then *)
(* has the sections of the documented problem file template: Intuition,    *)
(* Approach, Complexity, Code, Notes; what is left of the text when the    *)
(* interpolated fields are taken out is the same for every descriptor.     *)
(***************************************************************************)
\* The "###" sections of the README's problem file template
\* (part_000:114-163), in order.
DocumentedSections == <<"Intuition", "Approach", "Complexity", "Code", "Notes">>

\* The names after the section marks of a text, in order.
SectionsOf(text) ==
    LET marks == SelectSeq([k \in DOMAIN text |-> k],
                           LAMBDA k : text[k] = SectionMark)
    IN  [n \in DOMAIN marks |-> text[marks[n] + 1]]

\* The text up to the end of the link, field by field.
FrontOf(d) ==
    <<"---\nsidebar_position: ">> \o NumStr(d.position)
    \o <<"\ntitle: \"">> \o d.title
    \o <<TagsOpen>> \o RefTags(d.tags) \o <<TagsClose>>
    \o d.title
    \o <<"\n\n> **Difficulty:** ", d.difficulty>>
    \o <<"\n\n[View on LeetCode](https://leetcode.com/problems/">>
    \o RefSlug(d.title)

\* A text without the tokens that come from the descriptor's fields.
FixedText(text, d) ==
    LET fields == Range(NumStr(d.position)) \cup Range(d.title)
                    \cup Range(RefTags(d.tags)) \cup {d.difficulty}
                    \cup Range(RefSlug(d.title))
    IN  SelectSeq(text, LAMBDA t : t \notin fields)

Written == {k \in DOMAIN ops : ops[k].op = "writeFileSync" /\ ops[k].res = "none"}

C14_AsStated ==
    \A k \in Written :
        LET text == fs[ops[k].path].data
            d == problems[ops[k].at]
        IN  /\ Len(text) >= Len(FrontOf(d))
            /\ SubSeq(text, 1, Len(FrontOf(d))) = FrontOf(d)
            /\ SectionsOf(text) = DocumentedSections
            /\ \A h \in Written :
                   FixedText(fs[ops[h].path].data, problems[ops[h].at])
                       = FixedText(text, d)

(***************************************************************************)
(* C16  No field is validated.  As stated: a descriptor with a missing or  *)
(* malformed field never makes the run fail (no exception but that of a    *)
(* write), and the value of the field is carried into the text.            *)
(* As the code has it: a position or a difficulty that is missing or of    *)
(* another type is carried into the text by string conversion (a missing   *)
(* one as "undefined"); a title that is not a string ends the run with a   *)
(* TypeError before the existence check; tags that are not an array end    *)
(* the run with a TypeError when the file does not exist yet, and play no  *)
(* part when it exists and the descriptor is skipped.                      *)
(***************************************************************************)
\* The text a value is carried as.
AsText(v) ==
    CASE v.type = "undefined" -> <<"undefined">>
      [] v.type = "array" ->
             [j \in 1..(IF v.val = <<>> THEN 0 ELSE 2 * Len(v.val) - 1) |->
                 IF j % 2 = 1 THEN v.val[(j + 1) \div 2] ELSE ","]
      [] OTHER -> v.val

\* The files created so far carry position and difficulty as they are.
FieldsCarried ==
    \A k \in Written :
        LET p == problems[ops[k].at]
            text == fs[ops[k].path].data
            head == <<"---\nsidebar_position: ">> \o AsText(p.position)
                      \o <<"\ntitle: \"">>
        IN  /\ SubSeq(text, 1, Len(head)) = head
            /\ IsInfix(<<"\n\n> **Difficulty:** ">> \o AsText(p.difficulty)
                         \o <<"\n\n[View on LeetCode](https://leetcode.com/problems/">>,
                       text)

C16_AsStated ==
    /\ \A k \in DOMAIN ops : ops[k].res # "TypeError"
    /\ FieldsCarried

C16_NoValidation ==
    /\ FieldsCarried
    /\ \A i \in Processed :
          LET p == problems[i]
              fp == filepath([folder |-> p.folder, title |-> p.title.val])
          IN  IF p.title.type # "string"
              THEN /\ pc = "aborted" /\ idx = i
                   /\ Last(ops).op = "toLowerCase"
                   /\ Last(ops).res = "TypeError"
                   /\ ChecksAt(i) = {} /\ WritesAt(i) = {}
                   /\ Len(stdout) = i - 1
              ELSE /\ Cardinality(ChecksAt(i)) = 1
                   /\ \A c \in ChecksAt(i) :
                         IF ops[c].res = "exists"
                         THEN /\ WritesAt(i) = {}
                              /\ stdout[i] = skipLine(fp)
                         ELSE IF p.tags.type # "array"
                         THEN /\ pc = "aborted" /\ idx = i
                              /\ Last(ops).op = "map"
                              /\ Last(ops).res = "TypeError"
                              /\ WritesAt(i) = {}
                              /\ fp \notin DOMAIN fs
                              /\ Len(stdout) = i - 1
                         ELSE /\ WritesAt(i) = {c + 1}
                              /\ ops[c + 1].res = "none" =>
                                     stdout[i] = createdLine(fp)

\* A descriptor without position created with "undefined" in its place,
\* and the run ended by the next one, which has no title.
C16_Witness ==
    /\ pc = "aborted"
    /\ idx = 2
    /\ problems[1].position = Undefined
    /\ IsCreated(stdout[1])
    /\ IsInfix(<<"---\nsidebar_position: ", "undefined", "\ntitle: \"">>,
               fs[ops[2].path].data)
    /\ problems[2].title = Undefined
    /\ Last(ops).res = "TypeError"

(***************************************************************************)
(* C17  A completed run has printed one line per descriptor, created or    *)
(* skipped with the descriptor's path, in order, and then one summary      *)
(* line, the last line and the only one of its kind; a run that has not    *)
(* completed, one aborted by a write failure among them, has printed no    *)
(* summary line.                                                           *)
(***************************************************************************)
SummaryLines == {k \in DOMAIN stdout : Head(stdout[k]) = Head(ClosingLine)}

C17_LogAndSummary ==
    /\ pc = "done" =>
           /\ Len(stdout) = Len(problems) + 1
           /\ \A i \in DOMAIN problems :
                  \/ stdout[i] = createdLine(filepath(problems[i]))
                  \/ stdout[i] = skipLine(filepath(problems[i]))
           /\ SummaryLines = {Len(stdout)}
    /\ pc # "done" => SummaryLines = {}

\* A completed run of a skip and a creation, and before it a run that a
\* write failure ended.
C17_Witness ==
    /\ pc = "done"
    /\ prev.pc = "aborted"
    /\ Len(stdout) = 3
    /\ IsSkipped(stdout[1])
    /\ IsCreated(stdout[2])
    /\ \A k \in DOMAIN prev.stdout : Head(prev.stdout[k]) # Head(ClosingLine)

(***************************************************************************)
(* C20  Two descriptors of one list, of the same category and with titles  *)
(* of the same slug, nothing at their common target path at the start and  *)
(* no descriptor of that path before the first of them: once the later one *)
(* has been processed, the earlier one has been created, the later one     *)
(* reported skipped, and the file holds the text of the earlier one.       *)
(* Descriptors with equal slugs in different categories have different     *)
(* target paths, and each is created when it is the first of its path.     *)
(***************************************************************************)
SameSlug(i, j) == RefSlug(problems[i].title) = RefSlug(problems[j].title)
FirstOfItsPath(i) ==
    /\ filepath(problems[i]) \notin DOMAIN start.fs
    /\ \A h \in 1..(i - 1) : filepath(problems[h]) # filepath(problems[i])

C20_SlugCollision ==
    \A i, j \in DOMAIN problems :
        (i < j /\ SameSlug(i, j) /\ Len(stdout) >= j) =>
            IF problems[i].folder = problems[j].folder
            THEN FirstOfItsPath(i) =>
                     /\ stdout[i] = createdLine(filepath(problems[i]))
                     /\ stdout[j] = skipLine(filepath(problems[i]))
                     /\ fs[filepath(problems[i])]
                            = File(generateProblemTemplate(problems[i]))
            ELSE /\ filepath(problems[i]) # filepath(problems[j])
                 /\ (FirstOfItsPath(i) /\ FirstOfItsPath(j)) =>
                        IsCreated(stdout[i]) /\ IsCreated(stdout[j])

\* The noisy title first and the plain one after it, in one category: the
\* file is the noisy one's.
C20_Witness ==
    /\ pc = "done"
    /\ Len(problems) = 2
    /\ problems[1].title = TwoSumNoisy
    /\ problems[2].title = TwoSum
    /\ problems[1].folder = problems[2].folder
    /\ IsCreated(stdout[1])
    /\ IsSkipped(stdout[2])
    /\ fs[filepath(problems[2])] = File(generateProblemTemplate(problems[1]))

(***************************************************************************)
(* C18  Two invocations interleaved.  As stated: when both have ended, the *)
(* files and their contents are those a single invocation leaves from the  *)
(* same disk, whatever the interleaving.  As the code has it: that holds   *)
(* when no write failed after creating its file; a write that fails for    *)
(* want of disk space leaves a partial file, the other invocation finds    *)
(* it, skips the descriptor and goes on to descriptors a single invocation *)
(* never reaches.                                                          *)
(***************************************************************************)
BothEnded == \A p \in Invocations : pc[p] \in {"done", "aborted"}
Single == forEachFrom(problems, 1, StartState, dirs, readonly)
PartialWrites == {k \in DOMAIN ops : ops[k].res = "ENOSPC"}

WritesLeavingAFile(record, path) ==
    {k \in DOMAIN record : /\ record[k].op = "writeFileSync"
                           /\ record[k].path = path
                           /\ record[k].res \in {"none", "ENOSPC"}}

C19_Step ==
    /\ \A q \in DOMAIN fs : q \in DOMAIN fs' /\ fs'[q] = fs[q]
    /\ \A q \in DOMAIN fs' : Cardinality(WritesLeavingAFile(ops', q)) <= 1
    /\ \A k \in DOMAIN ops' \ DOMAIN ops :
           ops'[k].op = "writeFileSync" => ops'[k].path \notin DOMAIN fs

C19_CreatedOnce == [][C19_Step]_vars

\* A later run, on another list, has skipped the file that the run before
\* it created.
C19_Witness ==
    /\ run = 2
    /\ pc = "done"
    /\ problems # prev.problems
    /\ prev.problems # <<>>
    /\ \E i \in DOMAIN problems :
           /\ IsSkipped(stdout[i])
           /\ Cardinality(WritesLeavingAFile(ops, filepath(problems[i]))) = 1
           /\ fs[filepath(problems[i])].data
                  = generateProblemTemplate(prev.problems[1])

(***************************************************************************)
(* C28  Slug shape: the slug is made only of a-z, 0-9 and the hyphen, has  *)
(* no hyphen at its start or end and no two hyphens in a row.  As stated,  *)
(* it is empty exactly when the title has no ASCII letter or digit; as the *)
(* code has it, exactly when the lower-cased title has none (the Kelvin    *)
(* sign is no ASCII letter and lower-cases to k).                          *)
(***************************************************************************)
AsciiAlnum == Range(UpperSeq) \cup Range(LowerSeq) \cup Digits

SlugShaped(s) ==
    /\ \A i \in DOMAIN s : s[i] \in ClassChars \cup {"-"}
    /\ s # <<>> => s[1] # "-" /\ s[Len(s)] # "-"
    /\ \A i \in 1..(Len(s) - 1) : ~(s[i] = "-" /\ s[i + 1] = "-")

C28_AsStated ==
    spc = "returned" =>
        /\ SlugShaped(str)
        /\ str = <<>> <=> \A i \in DOMAIN title : title[i] \notin AsciiAlnum

C28_SlugShape ==
    spc = "returned" =>
        /\ SlugShaped(str)
        /\ str = <<>> <=>
               \A i \in DOMAIN title : RefFold(title[i]) \notin ClassChars

\* A title of separators only gave the empty slug, and one with a run of
\* separators inside and at its end a slug with a single hyphen.
C28_Witness ==
    /\ spc = "returned"
    /\ \/ title = <<"(", "-", ")">> /\ str = <<>>
       \/ title = NthTribonacci /\ str = NthTribonacciSlug

(***************************************************************************)
(* C29  slugify is idempotent: the slug of a slug is that slug, so a title *)
(* that is already a slug maps to itself.                                  *)
(***************************************************************************)
C29_SlugifyIdempotent ==
    /\ spc = "returned" => slugify(str) = str
    /\ (spc = "returned" /\ SlugShaped(title)) => str = title

\* A title changed by every step of the chain, whose slug the chain
\* leaves alone.
C29_Witness ==
    /\ spc = "returned"
    /\ title = <<" ", "A", " ">>
    /\ str = <<"a">>
    /\ slugify(str) = <<"a">>

(***************************************************************************)
(* C22  The link in a created file is https://leetcode.com/problems/       *)
(* followed by the slug and a slash, and that slug is the name of the file *)
(* the text was written to, without its .mdx extension.                    *)
(***************************************************************************)
LinkOpen == "\n\n[View on LeetCode](https://leetcode.com/problems/"
LinkClose == "/)\n\n***\n\n"

\* The tokens of a text between the address of the site and the slash
\* that closes the link.
LinkSlugOf(text) ==
    LET a == CHOOSE k \in DOMAIN text : text[k] = LinkOpen
        b == CHOOSE k \in DOMAIN text : text[k] = LinkClose
    IN  SubSeq(text, a + 1, b - 1)

C22_LinkSlugIsFileName ==
    \A k \in Written :
        LET text == fs[ops[k].path].data
        IN  /\ \E a \in DOMAIN text : text[a] = LinkOpen
            /\ \E b \in DOMAIN text : text[b] = LinkClose
            /\ LinkSlugOf(text) \o <<".mdx">> = Last(ops[k].path)
            /\ LinkSlugOf(text) = RefSlug(problems[ops[k].at].title)

\* The file of the noisy title: two-sum.mdx, with two-sum in its link.
C22_Witness ==
    \E k \in Written :
        /\ problems[ops[k].at].title = TwoSumNoisy
        /\ LinkSlugOf(fs[ops[k].path].data) = <<"t", "w", "o", "-", "s", "u", "m">>
        /\ Last(ops[k].path) = <<"t", "w", "o", "-", "s", "u", "m", ".mdx">>

(***************************************************************************)
(* C23  After a run that completed, every descriptor's target path exists, *)
(* whatever was there before; the entries the run added are exactly the    *)
(* target paths that did not exist at its start, and each of them was      *)
(* reported created once.                                                  *)
(***************************************************************************)
AbsentAtStart == TargetPaths \ DOMAIN start.fs
CreatedLines == {k \in DOMAIN Outcomes : IsCreated(Outcomes[k])}

C23_CompletionPostcondition ==
    pc = "done" =>
        /\ TargetPaths \subseteq DOMAIN fs
        /\ DOMAIN fs \ DOMAIN start.fs = AbsentAtStart
        /\ {LinePath(Outcomes[k]) : k \in CreatedLines}
               = {PathStr(q) : q \in AbsentAtStart}
        /\ Cardinality(CreatedLines) = Cardinality(AbsentAtStart)
        /\ \A q \in AbsentAtStart : fs[q].kind = "file"

\* A completed run over two paths, one of which existed before it.
C23_Witness ==
    /\ pc = "done"
    /\ Cardinality(TargetPaths) = 2
    /\ Cardinality(AbsentAtStart) = 1
    /\ Cardinality(CreatedLines) = 1

(***************************************************************************)
(* C30  A directory at the target path counts as existing: the step on     *)
(* such a descriptor prints the skip line, makes no write, leaves the disk *)
(* as it is and goes on to the next descriptor.                            *)
(***************************************************************************)
DirAtTarget ==
    /\ InLoop
    /\ filepath(problems[idx]) \in DOMAIN fs
    /\ fs[filepath(problems[idx])].kind = "dir"

C30_Step ==
    DirAtTarget =>
        /\ stdout' = Append(stdout, skipLine(filepath(problems[idx])))
        /\ ops' = Append(ops, [op |-> "existsSync", at |-> idx,
                               path |-> filepath(problems[idx]),
                               res |-> "exists"])
        /\ fs' = fs
        /\ pc' = "run"
        /\ idx' = idx + 1

C30_DirectoryCountsAsExisting == [][C30_Step]_vars

\* A run that skipped a directory at its first path and created its
\* second file.
C30_Witness ==
    /\ pc = "done"
    /\ Len(problems) = 2
    /\ filepath(problems[1]) \in DOMAIN start.fs
    /\ start.fs[filepath(problems[1])].kind = "dir"
    /\ IsSkipped(stdout[1])
    /\ IsCreated(stdout[2])
    /\ fs[filepath(problems[1])].kind = "dir"

(***************************************************************************)
(* C21  Order independence, for a list whose target paths are pairwise     *)
(* distinct.  As stated: in a run that has ended, a descriptor was created *)
(* exactly when nothing was at its path at the start and skipped exactly   *)
(* when something was, and every permutation of the list leaves the same   *)
(* files with the same contents.  As the code has it: that holds of the    *)
(* runs in which no write fails; a failed write ends the run, and the      *)
(* descriptors after it, which depend on the order, are never reached.     *)
(***************************************************************************)
DistinctPaths ==
    \A i, j \in DOMAIN problems :
        i # j => filepath(problems[i]) # filepath(problems[j])

Reorderings(list) ==
    {[k \in DOMAIN list |-> list[f[k]]] :
        f \in {g \in [DOMAIN list -> DOMAIN list] :
                  \A a, b \in DOMAIN list : a # b => g[a] # g[b]}}

ReportedCreated(q) == \E k \in DOMAIN Outcomes : Outcomes[k] = createdLine(q)
ReportedSkipped(q) == \E k \in DOMAIN Outcomes : Outcomes[k] = skipLine(q)

OwnPathDecides ==
    \A i \in DOMAIN problems :
        LET q == filepath(problems[i])
        IN  /\ ReportedCreated(q) <=> q \notin DOMAIN start.fs
            /\ ReportedSkipped(q) <=> q \in DOMAIN start.fs

SameFilesInAnyOrder ==
    \A list \in Reorderings(problems) :
        forEachFrom(list, 1, StartState, dirs, readonly).fs = fs

Recovered ==
    /\ run >= 2
    /\ prev.pc = "aborted"
    /\ pc = "done"
    /\ dirs = CategoryDirs /\ ~readonly /\ free = Unlimited

\* The descriptor at which the run before ended: one line was printed for
\* each descriptor before it.
FailedIndex == Len(prev.stdout) + 1
FailedPath == filepath(problems[FailedIndex])

FirstWith(q) ==
    CHOOSE i \in DOMAIN problems :
        /\ filepath(problems[i]) = q
        /\ \A h \in 1..(i - 1) : filepath(problems[h]) # q

C24_AsStated ==
    Recovered =>
        /\ TargetPaths \subseteq DOMAIN fs
        /\ fs[FailedPath] = File(generateProblemTemplate(problems[FailedIndex]))

C24_RecoveryKeepsWhatWasLeft ==
    Recovered =>
        /\ TargetPaths \subseteq DOMAIN fs
        /\ \A q \in TargetPaths :
               IF q \in DOMAIN prev.fs
               THEN fs[q] = prev.fs[q]
               ELSE fs[q] = File(generateProblemTemplate(problems[FirstWith(q)]))
        /\ FailedPath \in DOMAIN prev.fs =>
               LET whole == generateProblemTemplate(problems[FailedIndex])
                   left == fs[FailedPath].data
               IN  /\ Len(left) < Len(whole)
                   /\ left = SubSeq(whole, 1, Len(left))

\* The first run created a file and failed at the second, leaving nothing;
\* the second run skipped the first and created the second in full.
C24_Witness ==
    /\ Recovered
    /\ Len(problems) = 2
    /\ FailedIndex = 2
    /\ FailedPath \notin DOMAIN prev.fs
    /\ IsSkipped(stdout[1])
    /\ IsCreated(stdout[2])
    /\ fs[FailedPath] = File(generateProblemTemplate(problems[2]))

(***************************************************************************)
(* C27  Termination: every run comes to an end, either done with each      *)
(* descriptor processed exactly once, or aborted at the first write that   *)
(* failed, the descriptors up to it processed once and none after it; at   *)
(* no time has a descriptor been processed twice.                          *)
(***************************************************************************)
Terminated ==
    \/ /\ pc = "done"
       /\ \A i \in DOMAIN problems : Cardinality(ChecksAt(i)) = 1
    \/ /\ pc = "aborted"
       /\ Last(ops).op = "writeFileSync" /\ Last(ops).res # "none"
       /\ Last(ops).at = idx
       /\ Len(Outcomes) = idx - 1
       /\ \A i \in DOMAIN problems :
              Cardinality(ChecksAt(i)) = (IF i <= idx THEN 1 ELSE 0)

NeverTwice == \A i \in DOMAIN problems : Cardinality(ChecksAt(i)) <= 1

C27_Termination == <>Terminated /\ []NeverTwice

\* A run ended by the failed write of its second descriptor.
C27_Witness ==
    /\ Terminated
    /\ pc = "aborted"
    /\ idx = 2
    /\ IsCreated(stdout[1])

(***************************************************************************)
(* C25  The built-in table has 75 descriptors whose (folder, slug) pairs   *)
(* are pairwise distinct; a run of it against existing but empty category  *)
(* directories creates 75 files and skips none, and the number of files    *)
(* created in each folder is the count the documented structure lists.     *)
(***************************************************************************)
\* The files lying in the category directory of a folder.
FilesIn(f, folder) ==
    {p \in DOMAIN f :
        Front(p) = docsPath([folder |-> folder]) /\ f[p].kind = "file"}

EmptyCategories == start.fs = EmptyFs /\ dirs = TableDirs

C25_TableFillsEmptyCategories ==
    /\ Len(problems) = 75
    /\ \A i, j \in DOMAIN problems :
           (i # j /\ problems[i].folder = problems[j].folder) =>
               slugify(problems[i].title) # slugify(problems[j].title)
    /\ (pc = "done" /\ EmptyCategories) =>
           /\ Len(Outcomes) = 75
           /\ \A k \in DOMAIN Outcomes : IsCreated(Outcomes[k])
           /\ Cardinality(DOMAIN fs) = 75
           /\ \A p \in DOMAIN fs : fs[p].kind = "file" /\ Front(p) \in TableDirs
           /\ \A e \in Range(DocumentedStructure) :
                  Cardinality(FilesIn(fs, e[1])) = e[2]

C25_Witness ==
    /\ pc = "done"
    /\ EmptyCategories
    /\ Cardinality(FilesIn(fs, "array-string")) = 9
    /\ Cardinality(FilesIn(fs, "monotonic-stack")) = 2

(***************************************************************************)
(* C26  In the built-in table every position is a positive integer, and    *)
(* within each folder the positions are 1..k in table order, k the number  *)
(* of descriptors of the folder: the position of a row is the number of    *)
(* rows of its folder up to and including it.                              *)
(***************************************************************************)
RowsOfFolderUpTo(i) ==
    {j \in 1..i : problems[j].folder = problems[i].folder}

C26_PositionsCountUp ==
    \A i \in DOMAIN problems :
        /\ problems[i].position \in Nat \ {0}
        /\ problems[i].position = Cardinality(RowsOfFolderUpTo(i))

\* The run is at the first row of the second folder: the nine rows of the
\* first folder are behind it, their files written with their positions.
C26_Witness ==
    /\ problems = ProblemTable
    /\ idx = 10
    /\ problems[9].position = 9
    /\ problems[10].position = 1
    /\ problems[9].folder # problems[10].folder
    /\ filepath(problems[9]) \in DOMAIN fs

====
